---- MODULE Spec2Model ----
(***************************************************************************)
(* Model of the job lifecycle engine of infield-fly (src/jobs.py and the   *)
(* process_jobs orchestrator and job commands of src/infieldfly.py).       *)
(*                                                                         *)
(* The job directory is the function store (job id -> job dictionary).     *)
(* One process_jobs invocation is a sequence of steps; every step holds at *)
(* most one write to the job directory (Job.save or Job.delete), so that   *)
(* the process can be killed between any two writes (action Kill).         *)
(* Strings are modelled as sequences of tokens: a word, a digit or a       *)
(* punctuation sign each count as one token.                               *)
(***************************************************************************)
EXTENDS Integers, Sequences, FiniteSets, TLC

\* ------------------------------------------------------------------ bounds
MaxJobs == 3          \* job ids handed out in one behaviour
MaxDay == 2           \* calendar days 1..MaxDay
MaxResults == 2       \* search results returned for one query
MaxFiles == 2         \* media files matching the episode pattern in one download
MaxKills == 1         \* times the process is killed in one behaviour
MaxCommands == 1      \* job commands (jobs add, search --create-jobs) run in one behaviour

\* --------------------------------------------------------------- JobStatus
WAITING == "waiting"
SEARCHING == "searching"
ADDING == "adding"
DOWNLOADING == "downloading"
PENDING == "pending"
CONVERTING == "converting"
COMPLETED == "completed"
UNKNOWN == "unknown"

JobStatus == {WAITING, SEARCHING, ADDING, DOWNLOADING, PENDING, CONVERTING, COMPLETED, UNKNOWN}

\* Python's None for a string-valued attribute, and for a token sequence
\* (an f-string renders None as the word None).
None == "None"
NoneSeq == <<"None">>

\* What a job file can hold as its status besides the values of JobStatus: no
\* status entry at all, or a value that is not a value of JobStatus (another
\* spelling, another word, null).
NoStatus == "<no status entry>"
ForeignStatus == {"Waiting", "done", None}
PersistedStatus == JobStatus \cup ForeignStatus \cup {NoStatus}

\* ----------------------------------------------------------- configuration
\* config.metadata.tracked_series: one tracked series with two stored
\* searches, the second of which is download-only.
TrackedSeries ==
    << [series_id |-> 1, main_keyword |-> "x", keywords |-> {"x"},
        stored_searches |->
            << [search_terms |-> <<"x", "teamsearch">>, is_download_only |-> FALSE],
               [search_terms |-> <<"x", "raw">>, is_download_only |-> TRUE] >>] >>

\* The cached episode database: series id -> SeriesInfo.
KnownSeries ==
    [sid \in {1} |->
        [title |-> "X",
         episodes |-> << [season_number |-> 1, episode_number |-> 2,
                          title |-> <<"Pilot", ":">>, airdate |-> 1] >>]]

\* config.conversion.string_substitutions
StringSubstitutions == [c \in {":"} |-> "_"]

\* The results the search provider can rank, and the download daemon's data.
TorrentResults ==
    [i \in 1..MaxResults |->
        [title |-> "T" \o ToString(i), magnet_link |-> "magnet" \o ToString(i),
         hash |-> "h" \o ToString(i)]]

DownloadLocation == "downloads"

\* --------------------------------------------------------- pure functions
RECURSIVE Digits(_)
Digits(n) == IF n < 10 THEN <<ToString(n)>>
             ELSE Digits(n \div 10) \o <<ToString(n % 10)>>

\* format spec :02d
Pad2(n) == IF n < 10 THEN <<"0">> \o Digits(n) ELSE Digits(n)

EpisodeTag(season, episode) == <<"s">> \o Pad2(season) \o <<"e">> \o Pad2(episode)

DigitTokens == {"0", "1", "2", "3", "4", "5", "6", "7", "8", "9"}

DigitValue(t) == CHOOSE d \in 0..9 : ToString(d) = t

RECURSIVE ParseInt(_)
ParseInt(ds) == IF Len(ds) = 0 THEN 0
                ELSE 10 * ParseInt(SubSeq(ds, 1, Len(ds) - 1)) + DigitValue(ds[Len(ds)])

\* Length of the longest run of digit tokens of q that starts at position i.
RECURSIVE DigitRun(_, _)
DigitRun(q, i) == IF i <= Len(q) /\ q[i] \in DigitTokens THEN 1 + DigitRun(q, i + 1) ELSE 0

\* q has s<digits>e<digits> starting at position i
TagAt(q, i) ==
    /\ i <= Len(q)
    /\ q[i] \in {"s", "S"}
    /\ DigitRun(q, i + 1) > 0
    /\ i + 1 + DigitRun(q, i + 1) <= Len(q)
    /\ q[i + 1 + DigitRun(q, i + 1)] \in {"e", "E"}
    /\ DigitRun(q, i + 2 + DigitRun(q, i + 1)) > 0

\* re.match(r"(.*)s([0-9]+)e([0-9]+)(.*)", query, re.IGNORECASE): the greedy
\* first group leaves the last place where the rest matches.
EpisodeMatch(q) ==
    LET starts == {i \in 1..Len(q) : TagAt(q, i)} IN
    IF starts = {} THEN [matched |-> FALSE, season |-> 0, episode |-> 0]
    ELSE LET i == CHOOSE k \in starts : \A m \in starts : m <= k
             n == DigitRun(q, i + 1)
             j == i + 2 + n
         IN [matched |-> TRUE,
             season |-> ParseInt(SubSeq(q, i + 1, i + n)),
             episode |-> ParseInt(SubSeq(q, j, j + DigitRun(q, j) - 1))]

\* EpisodeInfo.plex_title
plex_title(series_title, ep) ==
    <<series_title, "-">> \o EpisodeTag(ep.season_number, ep.episode_number)
        \o <<"-">> \o ep.title

RECURSIVE Strip(_)
Strip(s) == IF Len(s) > 0 /\ s[1] = " " THEN Strip(Tail(s))
            ELSE IF Len(s) > 0 /\ s[Len(s)] = " " THEN Strip(SubSeq(s, 1, Len(s) - 1))
            ELSE s

\* "".join(string_substitutions.get(c, c) for c in title).strip()
SubstitutedTitle(title) ==
    Strip([i \in 1..Len(title) |->
              IF title[i] \in DOMAIN StringSubstitutions
              THEN StringSubstitutions[title[i]] ELSE title[i]])

\* EpisodeDatabase.get_tracked_series_by_keyword
get_tracked_series_by_keyword(keyword) ==
    LET hits == {i \in 1..Len(TrackedSeries) :
                    /\ keyword \in TrackedSeries[i].keywords
                    /\ TrackedSeries[i].series_id \in DOMAIN KnownSeries} IN
    IF hits = {} THEN 0
    ELSE TrackedSeries[CHOOSE i \in hits : \A k \in hits : i <= k].series_id

\* SeriesInfo.get_episode: the first episode with these numbers, or <<>>.
get_episode(sid, season, episode) ==
    LET eps == KnownSeries[sid].episodes
        hits == {i \in 1..Len(eps) : /\ eps[i].season_number = season
                                     /\ eps[i].episode_number = episode} IN
    IF hits = {} THEN <<>> ELSE <<eps[CHOOSE i \in hits : \A k \in hits : i <= k]>>

\* SeriesInfo.get_episodes_by_airdate(airdate, airdate)
get_episodes_by_airdate(sid, start_date, end_date) ==
    SelectSeq(KnownSeries[sid].episodes,
              LAMBDA ep : ep.airdate >= start_date /\ ep.airdate <= end_date)

\* The (series, episode, stored search) triples create_new_search_jobs visits,
\* in the order of its three nested loops.
RECURSIVE Flatten(_)
Flatten(ss) == IF Len(ss) = 0 THEN <<>> ELSE Head(ss) \o Flatten(Tail(ss))

SearchesFor(from_date, to_date) ==
    Flatten([t \in 1..Len(TrackedSeries) |->
        LET eps == get_episodes_by_airdate(TrackedSeries[t].series_id, from_date, to_date)
            ss == TrackedSeries[t].stored_searches
        IN Flatten([e \in 1..Len(eps) |->
               [s \in 1..Len(ss) |->
                   [keyword |-> TrackedSeries[t].main_keyword,
                    query |-> ss[s].search_terms
                                 \o EpisodeTag(eps[e].season_number, eps[e].episode_number),
                    download_only |-> ss[s].is_download_only,
                    plex_title |-> plex_title(KnownSeries[TrackedSeries[t].series_id].title,
                                              eps[e])]]])])

\* What the command line of "jobs add" is given in the model: the keyword and
\* query of a tracked episode.
JobsAddArguments ==
    { [keyword |-> "x", search_term |-> <<"x", "teamsearch">> \o EpisodeTag(1, 2)] }

\* Job.update_converted_file_name, its lookup: the file name for a keyword and
\* a query, or <<>> when the query names no episode, the keyword no tracked
\* series or the series has no such episode.
file_name(keyword, query) ==
    LET m == EpisodeMatch(query)
        sid == get_tracked_series_by_keyword(keyword)
    IN IF ~m.matched \/ sid = 0 THEN <<>>
       ELSE LET found == get_episode(sid, m.season, m.episode) IN
            IF found = <<>> THEN <<>>
            ELSE SubstitutedTitle(plex_title(KnownSeries[sid].title, found[1]))

\* The keywords and queries jobs are created with, and the file name of each,
\* looked up once.
JobArguments ==
    {<<a.keyword, a.search_term>> : a \in JobsAddArguments}
        \cup {<<SearchesFor(1, MaxDay)[i].keyword, SearchesFor(1, MaxDay)[i].query>> :
                  i \in 1..Len(SearchesFor(1, MaxDay))}

file_names == [a \in JobArguments |-> file_name(a[1], a[2])]

\* Job.update_converted_file_name: the job with its converted file name
\* refreshed from the cached episode database.
update_converted_file_name(j) ==
    LET name == file_names[<<j.keyword, j.query>>] IN
    IF name = <<>> THEN j ELSE [j EXCEPT !.converted_file_name = name]


\* ------------------------------------------------------------------- state
VARIABLES
    store,                  \* the job directory: job id -> persisted dictionary
    nextId,                 \* the next id uuid.uuid1() hands out
    today,                  \* datetime.now() as a day number
    pc,                     \* where the process_jobs invocation stands
    airdate,                \* the reference date of the invocation
    job_list,               \* the jobs the running loop still has to visit
    pending_job_list,       \* perform_conversions' list of job objects
    job,                    \* the job object the running loop works on
    search_results,         \* results of the current search
    search_result_counter,  \* index of the next result to apply
    searches,               \* the (series, episode, search) triples discovery still visits
    files,                  \* matching input files of the current job not yet converted
    torrents,               \* the magnet links the daemon has accepted
    staging,                \* output names present in the staging directory
    final,                  \* output names present in the final directory
    kills,                  \* times the process was killed so far
    commands,               \* job commands run so far
    quiet,                  \* history of the search stage (see QuietRun)
    submitted,              \* history: ids of the jobs whose magnet link add_torrents handed to the daemon
    finder,                 \* the TorrentDataProvider of perform_searches and its running search call
    unparseable,            \* names of the job files whose text is not a JSON document
    output                  \* what the last job command printed

vars == <<store, nextId, today, pc, airdate, job_list, pending_job_list, job, search_results,
          search_result_counter, searches, files, torrents, staging, final, kills, commands,
          quiet, submitted, unparseable, output, finder>>

NoJob == [id |-> 0]

\* Nothing has been printed by a job command.
NoOutput == [command |-> None, raised |-> FALSE, found |-> FALSE, id |-> 0, lines |-> {}]

Magnets == {TorrentResults[i].magnet_link : i \in 1..Len(TorrentResults)}

\* Job.__init__ with an empty dictionary: a fresh id, WAITING, added today.
NewJob(id, now) ==
    [id |-> id, status |-> WAITING, keyword |-> None, query |-> NoneSeq, added |-> now,
     title |-> None, magnet_link |-> None, torrent_hash |-> None,
     download_directory |-> None, name |-> NoneSeq, converted_file_name |-> NoneSeq,
     download_only |-> FALSE]

\* Job.save: the file of the job holds the job's dictionary.
Save(st, j) == [i \in (DOMAIN st) \cup {j.id} |-> IF i = j.id THEN j ELSE st[i]]

\* Mutant of Delete: when the job has no file, the oldest file is removed.
Delete_OrOldest(st, j) ==
    LET gone == IF j.id \in DOMAIN st \/ DOMAIN st = {} THEN {j.id}
                ELSE {CHOOSE i \in DOMAIN st : \A k \in DOMAIN st : i <= k}
    IN [i \in (DOMAIN st) \ gone |-> st[i]]

\* Job.delete: the file of the job is removed if it exists.
Delete(st, j) == [i \in (DOMAIN st) \ {j.id} |-> st[i]]

\* Mutant of JobStatusOf: a value that is not one of JobStatus makes a waiting job.
JobStatusOf_Waiting(value) == IF value \in JobStatus THEN value ELSE WAITING

\* JobStatus(value): the member with that value, and UNKNOWN (_missing_) for
\* any other value.
JobStatusOf(value) == IF value \in JobStatus THEN value ELSE UNKNOWN

\* Job.__init__ with the dictionary read from a job file: a dictionary without
\* status makes a waiting job, and any status it has goes through JobStatus().
Job(job_dict) ==
    [job_dict EXCEPT !.status = IF @ = NoStatus THEN WAITING ELSE JobStatusOf(@)]

\* JobQueue.load_jobs (when every file parses)
load_jobs(st) == {Job(st[i]) : i \in DOMAIN st}

\* Mutant of get_jobs_by_status: jobs of status UNKNOWN are listed as waiting.
get_jobs_by_status_UnknownAsWaiting(st, status) ==
    {j \in load_jobs(st) : j.status = status \/ (status = WAITING /\ j.status = UNKNOWN)}

\* JobQueue.get_jobs_by_status
get_jobs_by_status(st, status) == {j \in load_jobs(st) : j.status = status}

\* Mutant of is_existing_job: completed jobs are not looked at.
is_existing_job_IgnoringCompleted(st, keyword, search_string) ==
    \E j \in load_jobs(st) :
        j.status # COMPLETED /\ j.keyword = keyword /\ j.query = search_string

\* Mutant of is_existing_job: the answer is always False.
is_existing_job_Never(st, keyword, search_string) == FALSE

\* Mutant of is_existing_job: the query is not compared.
is_existing_job_ByKeyword(st, keyword, search_string) ==
    \E j \in load_jobs(st) : j.keyword = keyword

\* JobQueue.is_existing_job
is_existing_job(st, keyword, search_string) ==
    \E j \in load_jobs(st) : j.keyword = keyword /\ j.query = search_string

\* Mutant of Copy: the copy keeps the id of the job it was made from.
Copy_KeepingId(j, id) == j

\* Job.copy: the dictionary without its id, under a fresh id.
Copy(j, id) == [j EXCEPT !.id = id]

\* Mutant of create_job: the job is created as searching.
create_job_Searching(id, now, keyword, query, is_download_only) ==
    update_converted_file_name(
        [NewJob(id, now) EXCEPT !.status = SEARCHING, !.keyword = keyword, !.query = query,
                                !.download_only = is_download_only])

\* JobQueue.create_job, up to its save
create_job(id, now, keyword, query, is_download_only) ==
    update_converted_file_name(
        [NewJob(id, now) EXCEPT !.keyword = keyword, !.query = query,
                                !.download_only = is_download_only])

\* The responses of get_data: None, a dictionary with an "error" entry, a
\* dictionary with found torrent results.
NoResponse == [none |-> TRUE, error |-> FALSE, found |-> 0]

ErrorResponse == [none |-> FALSE, error |-> TRUE, found |-> 0]

\* TorrentDataProvider(): the provider without a token. Beside the token the
\* record holds the running search call: its retry_count argument and local,
\* its search_response, and as history the requests sent (for a token, for
\* the search) and the responses
\* get_data returned to search.
TorrentDataProvider ==
    [token |-> None, retry_argument |-> 0, retry_count |-> 0, token_requests |-> 0,
     search_requests |-> 0,
     responses |-> <<>>, search_response |-> NoResponse]

Init ==
    /\ store = <<>>
    /\ nextId = 1
    /\ today = 1
    /\ pc = "idle"
    /\ airdate = 0
    /\ job_list = {}
    /\ pending_job_list = {}
    /\ job = NoJob
    /\ search_results = <<>>
    /\ search_result_counter = 0
    /\ searches = <<>>
    /\ files = 0
    /\ torrents = {}
    /\ staging = {}
    /\ final = {}
    /\ kills = 0
    /\ commands = 0
    /\ quiet = 0
    /\ submitted = {}
    /\ unparseable = {}
    /\ output = NoOutput
    /\ finder = TorrentDataProvider

\* The locals of an invocation that has returned, raised or been killed.
Forget ==
    /\ airdate' = 0
    /\ job_list' = {}
    /\ pending_job_list' = {}
    /\ job' = NoJob
    /\ search_results' = <<>>
    /\ search_result_counter' = 0
    /\ searches' = <<>>
    /\ files' = 0

\* ------------------------------------------------------------ process_jobs
\* The history variable quiet records runs of perform_searches in which no
\* search found anything: 0 - none on record; 1 - one is under way; 2 - one has
\* returned, and neither the job directory nor the date has changed since;
\* 3 - the next one after it is under way; 4 - that one has returned as well.
QuietRun == {1, 3}
QuietDone == {2, 4}

\* quiet when perform_searches returns.
QuietReturned == IF quiet = 1 THEN 2 ELSE IF quiet = 3 THEN 4 ELSE 0

\* quiet after a step outside perform_searches that may write a job.
QuietUnlessWritten == IF store' # store THEN 0 ELSE quiet

\* process_jobs is called. Its skip flags are arguments of the command line that
\* are read once each, where process_jobs tests them: the model draws each flag
\* there (the Skip and Begin actions of the four stages).
StartProcessJobs ==
    /\ pc = "idle"
    /\ pc' = "perform_searches"
    /\ UNCHANGED <<store, nextId, today, airdate, job_list, pending_job_list, job,
                   search_results, search_result_counter, searches, files, torrents,
                   staging, final, kills, finder, submitted, unparseable, output, commands, quiet>>

\* An exception leaves process_jobs: the invocation ends where it stands.
Raise ==
    /\ pc' = "idle"
    /\ Forget

\* process_jobs returns.
Return ==
    /\ pc' = "idle"
    /\ Forget

\* The process is killed between two steps (Job.save is one step here; the
\* job commands further down take it in its two steps).
Kill ==
    /\ pc # "idle"
    /\ kills < MaxKills
    /\ kills' = kills + 1
    /\ pc' = "idle"
    /\ Forget
    /\ UNCHANGED <<store, nextId, today, torrents, staging, final, commands, finder, submitted,
                   unparseable, output>>
    /\ quiet' = IF quiet \in QuietRun THEN 0 ELSE quiet

\* Midnight passes between two invocations.
NextDay ==
    /\ pc = "idle"
    /\ today < MaxDay
    /\ today' = today + 1
    /\ UNCHANGED <<store, nextId, pc, airdate, job_list, pending_job_list, job,
                   search_results, search_result_counter, searches, files, torrents,
                   staging, final, kills, finder, submitted, unparseable, output, commands>>
    /\ quiet' = 0

\* -------------------------------------------------------- perform_searches
\* What the search provider answers when it finds n results: the first n of
\* its ranking.
SearchResults(n) == SubSeq(TorrentResults, 1, n)

\* The outcomes of the collaborators (search provider, download daemon, file
\* system, converter): all of them, and those of a run in which every call
\* succeeds, every search finds something and every download has finished.
AnyOutcome ==
    [found |-> 0..MaxResults,
     prefetch |-> {"no id", "no metadata", "metadata"},
     call |-> {"returns", "raises"},
     torrent |-> {"finished", "unfinished", "raises"},
     listed |-> 0..MaxFiles]

HappyOutcome ==
    [found |-> 1..MaxResults,
     prefetch |-> {"metadata"},
     call |-> {"returns"},
     torrent |-> {"finished"},
     listed |-> 1..MaxFiles]

\* args.skip_search is set: process_jobs skips the search stage.
SkipSearches ==
    /\ pc = "perform_searches"
    /\ pc' = "add_torrents"
    /\ UNCHANGED <<store, nextId, today, airdate, job_list, pending_job_list, job,
                   search_results, search_result_counter, searches, files, torrents,
                   staging, final, kills, finder, submitted, unparseable, output, commands, quiet>>

\* Mutant of completed_job_list: the jobs of any status not added on the date.
completed_job_list_AnyStatus(st, date) == {x \in load_jobs(st) : x.added # date}

\* The completed jobs perform_searches deletes: those not added on the airdate.
completed_job_list(st, date) == {x \in get_jobs_by_status(st, COMPLETED) : x.added # date}

\* args.skip_search is not set and perform_searches starts: the completed jobs not added on the airdate are listed.
BeginSearches ==
    /\ pc = "perform_searches"
    /\ airdate' = today
    /\ job_list' = completed_job_list(store, today)
    /\ pc' = "ps_prune"
    /\ UNCHANGED <<store, nextId, today, pending_job_list, job, search_results,
                   search_result_counter, searches, files, torrents, staging, final, kills, finder, submitted, unparseable, output, commands>>
    /\ quiet' = IF quiet \in QuietDone THEN 3 ELSE 1

\* One listed completed job is deleted.
PruneCompleted ==
    /\ pc = "ps_prune"
    /\ \E j \in job_list :
        /\ store' = Delete(store, j)
        /\ job_list' = job_list \ {j}
    /\ UNCHANGED <<nextId, today, pc, airdate, pending_job_list, job, search_results,
                   search_result_counter, searches, files, torrents, staging, final, kills, finder, submitted, unparseable, output, commands, quiet>>

\* The pruning loop ends: the waiting jobs are listed.
PruneDone ==
    /\ pc = "ps_prune"
    /\ job_list = {}
    /\ job_list' = get_jobs_by_status(store, WAITING)
    /\ pc' = "ps_promote"
    /\ UNCHANGED <<store, nextId, today, airdate, pending_job_list, job, search_results,
                   search_result_counter, searches, files, torrents, staging, final, kills, finder, submitted, unparseable, output, commands, quiet>>

\* The waiting job as perform_searches saves it: searching, its converted file
\* name refreshed.
Promoted(j) == update_converted_file_name([j EXCEPT !.status = SEARCHING])

\* One waiting job is saved as searching.
PromoteWaiting ==
    /\ pc = "ps_promote"
    /\ \E j \in job_list :
        /\ store' = Save(store, Promoted(j))
        /\ job_list' = job_list \ {j}
    /\ UNCHANGED <<nextId, today, pc, airdate, pending_job_list, job, search_results,
                   search_result_counter, searches, files, torrents, staging, final, kills, finder, submitted, unparseable, output, commands, quiet>>

\* The promotion loop ends: create_new_search_jobs starts on the episodes of the airdate.
PromoteDone ==
    /\ pc = "ps_promote"
    /\ job_list = {}
    /\ searches' = SearchesFor(airdate, airdate)
    /\ pc' = "ps_create"
    /\ UNCHANGED <<store, nextId, today, airdate, job_list, pending_job_list, job,
                   search_results, search_result_counter, files, torrents, staging, final,
                   kills, finder, submitted, unparseable, output, commands, quiet>>

\* create_new_search_jobs visits one stored search of one episode: nothing is
\* done when a job with its keyword and query exists, else create_job saves a
\* new job.
CreateSearchJob ==
    /\ pc = "ps_create"
    /\ searches # <<>>
    /\ LET s == Head(searches) IN
        IF is_existing_job(store, s.keyword, s.query)
        THEN /\ searches' = Tail(searches)
             /\ UNCHANGED <<store, nextId, pc, job>>
        ELSE /\ nextId <= MaxJobs
             /\ job' = create_job(nextId, today, s.keyword, s.query, FALSE)
             /\ store' = Save(store, job')
             /\ nextId' = nextId + 1
             /\ pc' = "ps_create_save"
             /\ UNCHANGED searches
    /\ UNCHANGED <<today, airdate, job_list, pending_job_list, search_results,
                   search_result_counter, files, torrents, staging, final, kills, finder, submitted, unparseable, output, commands, quiet>>

\* Mutant of SearchJob: the download-only flag of the stored search is not set.
SearchJob_Unflagged(j, s) ==
    [j EXCEPT !.status = SEARCHING,
              !.converted_file_name =
                  IF ~s.download_only THEN SubstitutedTitle(s.plex_title) ELSE @]

\* The job create_job returned as create_new_search_jobs saves it: searching,
\* with the download-only flag and the file name of the stored search.
SearchJob(j, s) ==
    [j EXCEPT !.status = SEARCHING,
              !.download_only = s.download_only,
              !.converted_file_name =
                  IF ~s.download_only THEN SubstitutedTitle(s.plex_title) ELSE @]

\* create_new_search_jobs saves the job it created.
SaveSearchJob ==
    /\ pc = "ps_create_save"
    /\ store' = Save(store, SearchJob(job, Head(searches)))
    /\ searches' = Tail(searches)
    /\ job' = NoJob
    /\ pc' = "ps_create"
    /\ UNCHANGED <<nextId, today, airdate, job_list, pending_job_list, search_results,
                   search_result_counter, files, torrents, staging, final, kills, finder, submitted, unparseable, output, commands, quiet>>

\* create_new_search_jobs returns: the searching jobs are listed, and
\* perform_searches returns when there is none.
CreateDone ==
    /\ pc = "ps_create"
    /\ searches = <<>>
    /\ job_list' = get_jobs_by_status(store, SEARCHING)
    /\ pc' = IF job_list' = {} THEN "add_torrents" ELSE "ps_search"
    /\ UNCHANGED <<store, nextId, today, airdate, pending_job_list, job, search_results,
                   search_result_counter, searches, files, torrents, staging, final, kills, finder, submitted, unparseable, output, commands>>
    /\ quiet' = IF pc' = "add_torrents" THEN QuietReturned ELSE quiet

\* Mutant of Requeued: the status is left as it is.
Requeued_Unchanged(j) == j

\* The job as perform_searches saves it when its search found nothing.
Requeued(j) == [j EXCEPT !.status = WAITING]

\* One listed job is searched: without results it is saved as waiting, with
\* results the loop over the results starts.
SearchJobQuery(outcome) ==
    /\ pc = "ps_search"
    /\ \E j \in job_list, n \in outcome.found :
        /\ nextId + n - 1 <= MaxJobs + 1
        /\ job_list' = job_list \ {j}
        /\ IF n = 0
           THEN /\ store' = Save(store, Requeued(j))
                /\ UNCHANGED <<pc, job, search_results, search_result_counter>>
           ELSE /\ job' = j
                /\ search_results' = SearchResults(n)
                /\ search_result_counter' = 0
                /\ pc' = "ps_result"
                /\ UNCHANGED store
    /\ UNCHANGED <<nextId, today, airdate, pending_job_list, searches, files,
                   torrents, staging, final, kills, finder, submitted, unparseable, output, commands>>
    /\ quiet' = IF pc' = "ps_result" THEN 0 ELSE quiet

\* Mutant of AddedJob: the copies are numbered from 2.
AddedJob_NumberedFromTwo(j, counter, id) ==
    IF counter = 0 THEN j
    ELSE [Copy(j, id) EXCEPT
             !.converted_file_name = @ \o <<".", ToString(counter + 1)>>]

\* Mutant of AddedJob: the copy keeps the file name of the searched job.
AddedJob_Undecorated(j, counter, id) == IF counter = 0 THEN j ELSE Copy(j, id)

\* The job that takes the result numbered counter: the searched job itself for
\* the first result, else a copy under a new id with a decorated file name.
AddedJob(j, counter, id) ==
    IF counter = 0 THEN j
    ELSE [Copy(j, id) EXCEPT
             !.converted_file_name = @ \o <<".", ToString(counter)>>]

\* Mutant of WithResult: the search result is saved without the new status.
WithResult_KeepingStatus(added_job, search_result) ==
    [added_job EXCEPT !.magnet_link = search_result.magnet_link,
                      !.title = search_result.title,
                      !.torrent_hash = search_result.hash]

\* The added job as saved with its search result.
WithResult(added_job, search_result) ==
    [added_job EXCEPT !.status = ADDING,
                      !.magnet_link = search_result.magnet_link,
                      !.title = search_result.title,
                      !.torrent_hash = search_result.hash]

\* The next search result is saved on its job; after the last one the loop
\* over the searching jobs goes on.
ApplySearchResult ==
    /\ pc = "ps_result"
    /\ LET added_job == WithResult(AddedJob(job, search_result_counter, nextId),
                                   search_results[search_result_counter + 1]) IN
        /\ store' = Save(store, added_job)
        /\ nextId' = IF search_result_counter = 0 THEN nextId ELSE nextId + 1
        /\ IF search_result_counter + 1 = Len(search_results)
           THEN /\ job' = NoJob
                /\ search_results' = <<>>
                /\ search_result_counter' = 0
                /\ pc' = "ps_search"
           ELSE /\ job' = IF search_result_counter = 0 THEN added_job ELSE job
                /\ search_result_counter' = search_result_counter + 1
                /\ UNCHANGED <<pc, search_results>>
    /\ UNCHANGED <<today, airdate, job_list, pending_job_list, searches, files,
                   torrents, staging, final, kills, finder, submitted, unparseable, output, commands, quiet>>

\* Mutant of SearchesDone: the jobs now waiting are promoted and searched again.
SearchesDone_PromoteAgain ==
    /\ pc = "ps_search"
    /\ job_list = {}
    /\ job_list' = get_jobs_by_status(store, WAITING)
    /\ pc' = IF job_list' = {} THEN "add_torrents" ELSE "ps_promote"
    /\ UNCHANGED <<store, nextId, today, airdate, pending_job_list, job,
                   search_results, search_result_counter, searches, files, torrents,
                   staging, final, kills, finder, submitted, unparseable, output, commands>>
    /\ quiet' = QuietReturned

\* The loop over the searching jobs ends: perform_searches returns.
SearchesDone ==
    /\ pc = "ps_search"
    /\ job_list = {}
    /\ pc' = "add_torrents"
    /\ UNCHANGED <<store, nextId, today, airdate, job_list, pending_job_list, job,
                   search_results, search_result_counter, searches, files, torrents,
                   staging, final, kills, finder, submitted, unparseable, output, commands>>
    /\ quiet' = QuietReturned

\* ------------------------------------------------------------ add_torrents
\* The id the daemon derives from a magnet link, and the names it reports: the
\* name in the prefetched metadata (that of the second torrent has none) and
\* the name in the torrent status.
TorrentId(magnet_link) ==
    IF \E i \in 1..Len(TorrentResults) : TorrentResults[i].magnet_link = magnet_link
    THEN (CHOOSE r \in {TorrentResults[i] : i \in 1..Len(TorrentResults)} :
              r.magnet_link = magnet_link).hash
    ELSE None

MetadataName(torrent_id) ==
    IF torrent_id = TorrentResults[1].hash THEN <<"metadata", torrent_id>> ELSE NoneSeq
StatusName(torrent_id) == <<"torrent", torrent_id>>

\* Mutant of SkipAddTorrents: the query stage is skipped along with the add stage.
SkipAddTorrents_AndQuery ==
    /\ pc = "add_torrents"
    /\ pc' = "perform_conversions"
    /\ UNCHANGED <<store, nextId, today, airdate, job_list, pending_job_list, job,
                   search_results, search_result_counter, searches, files, torrents,
                   staging, final, kills, finder, submitted, unparseable, output, commands, quiet>>

\* args.skip_add_downloads is set: process_jobs skips the add stage.
SkipAddTorrents ==
    /\ pc = "add_torrents"
    /\ pc' = "query_torrents_status"
    /\ UNCHANGED <<store, nextId, today, airdate, job_list, pending_job_list, job,
                   search_results, search_result_counter, searches, files, torrents,
                   staging, final, kills, finder, submitted, unparseable, output, commands, quiet>>

\* args.skip_add_downloads is not set and add_torrents starts: the adding jobs are listed; it returns when there is none.
BeginAddTorrents ==
    /\ pc = "add_torrents"
    /\ job_list' = get_jobs_by_status(store, ADDING)
    /\ pc' = IF job_list' = {} THEN "query_torrents_status" ELSE "at_prefetch"
    /\ UNCHANGED <<store, nextId, today, airdate, pending_job_list, job,
                   search_results, search_result_counter, searches, files, torrents,
                   staging, final, kills, finder, submitted, unparseable, output, commands, quiet>>

\* The metadata of the magnet link of one listed job is prefetched. Without an
\* id add_torrents returns; without metadata, reading the name raises.
PrefetchMetadata(outcome) ==
    /\ pc = "at_prefetch"
    /\ \E j \in job_list, answer \in outcome.prefetch :
        CASE answer = "no id" ->
                /\ pc' = "query_torrents_status"
                /\ job_list' = {}
                /\ UNCHANGED <<airdate, pending_job_list, job, search_results,
                               search_result_counter, searches, files>>
          [] answer = "no metadata" -> Raise
          [] OTHER ->
                /\ job' = j
                /\ job_list' = job_list \ {j}
                /\ pc' = "at_add"
                /\ UNCHANGED <<airdate, pending_job_list, search_results,
                               search_result_counter, searches, files>>
    /\ UNCHANGED <<store, nextId, today, torrents, staging, final, kills, finder, submitted, unparseable, output, commands, quiet>>

\* The magnet link is handed to the daemon, which takes it or raises.
AddTorrentMagnet(outcome) ==
    /\ pc = "at_add"
    /\ \E answer \in outcome.call :
        IF answer = "returns"
        THEN /\ job.magnet_link \in Magnets
             /\ torrents' = torrents \cup {job.magnet_link}
             /\ submitted' = submitted \cup {job.id}
             /\ pc' = "at_status"
             /\ UNCHANGED <<airdate, job_list, pending_job_list, job, search_results,
                            search_result_counter, searches, files>>
        ELSE /\ Raise
             /\ UNCHANGED <<torrents, submitted>>
    /\ UNCHANGED <<store, nextId, today, staging, final, kills, finder, unparseable, output, commands, quiet>>

\* Mutant of Downloading: the name is that of the metadata, with no fallback.
Downloading_WithoutFallback(j, encoded_name) ==
    [j EXCEPT !.torrent_hash = TorrentId(j.magnet_link),
              !.download_directory = DownloadLocation,
              !.name = encoded_name,
              !.status = DOWNLOADING]

\* Mutant of Downloading: the download directory is not taken over.
Downloading_WithoutDirectory(j, encoded_name) ==
    LET torrent_id == TorrentId(j.magnet_link) IN
    [j EXCEPT !.torrent_hash = torrent_id,
              !.name = IF encoded_name # NoneSeq THEN encoded_name
                       ELSE StatusName(torrent_id),
              !.status = DOWNLOADING]

\* The job as add_torrents saves it from the torrent status of the daemon;
\* encoded_name is the name of the prefetched metadata, if it has one.
Downloading(j, encoded_name) ==
    LET torrent_id == TorrentId(j.magnet_link) IN
    [j EXCEPT !.torrent_hash = torrent_id,
              !.download_directory = DownloadLocation,
              !.name = IF encoded_name # NoneSeq THEN encoded_name
                       ELSE StatusName(torrent_id),
              !.status = DOWNLOADING]

\* The status of the added torrent is read and the job saved as downloading,
\* unless the call raises; after the last job add_torrents returns.
SaveDownloading(outcome) ==
    /\ pc = "at_status"
    /\ \E answer \in outcome.call :
        IF answer = "returns"
        THEN /\ store' = Save(store, Downloading(job, MetadataName(TorrentId(job.magnet_link))))
             /\ job' = NoJob
             /\ pc' = IF job_list = {} THEN "query_torrents_status" ELSE "at_prefetch"
             /\ UNCHANGED <<airdate, job_list, pending_job_list, search_results,
                            search_result_counter, searches, files>>
        ELSE /\ Raise
             /\ UNCHANGED store
    /\ UNCHANGED <<nextId, today, torrents, staging, final, kills, finder, submitted, unparseable, output, commands>>
    /\ quiet' = QuietUnlessWritten

\* --------------------------------------------------- query_torrents_status
\* args.skip_query_downloads is set: process_jobs skips the query stage.
SkipQueryStatus ==
    /\ pc = "query_torrents_status"
    /\ pc' = "perform_conversions"
    /\ UNCHANGED <<store, nextId, today, airdate, job_list, pending_job_list, job,
                   search_results, search_result_counter, searches, files, torrents,
                   staging, final, kills, finder, submitted, unparseable, output, commands, quiet>>

\* Mutant of BeginQueryStatus: the jobs still ADDING are listed as well.
BeginQueryStatus_AlsoAdding ==
    /\ pc = "query_torrents_status"
    /\ job_list' = get_jobs_by_status(store, DOWNLOADING) \cup get_jobs_by_status(store, ADDING)
    /\ pc' = IF job_list' = {} THEN "perform_conversions" ELSE "qt_query"
    /\ UNCHANGED <<store, nextId, today, airdate, pending_job_list, job,
                   search_results, search_result_counter, searches, files, torrents,
                   staging, final, kills, finder, submitted, unparseable, output, commands, quiet>>

\* args.skip_query_downloads is not set and query_torrents_status starts: the downloading jobs are listed.
BeginQueryStatus ==
    /\ pc = "query_torrents_status"
    /\ job_list' = get_jobs_by_status(store, DOWNLOADING)
    /\ pc' = IF job_list' = {} THEN "perform_conversions" ELSE "qt_query"
    /\ UNCHANGED <<store, nextId, today, airdate, pending_job_list, job,
                   search_results, search_result_counter, searches, files, torrents,
                   staging, final, kills, finder, submitted, unparseable, output, commands, quiet>>

\* Mutant of Finished: the finished download is written as completed.
Finished_AsCompleted(j) == [j EXCEPT !.name = StatusName(j.torrent_hash), !.status = COMPLETED]

\* Mutant of Finished: the name is left as add_torrents wrote it.
Finished_KeepingName(j) == [j EXCEPT !.status = PENDING]

\* The job as query_torrents_status saves it for a finished torrent.
Finished(j) == [j EXCEPT !.name = StatusName(j.torrent_hash), !.status = PENDING]

\* The daemon is asked for the torrent of one listed job: a finished one is
\* saved as pending, an unfinished one is left, and the call may raise.
QueryTorrent(outcome) ==
    /\ pc = "qt_query"
    /\ \E j \in job_list, answer \in outcome.torrent :
        CASE answer = "finished" ->
                /\ \E m \in torrents : TorrentId(m) = j.torrent_hash
                /\ store' = Save(store, Finished(j))
                /\ job_list' = job_list \ {j}
                /\ pc' = IF job_list' = {} THEN "perform_conversions" ELSE "qt_query"
                /\ UNCHANGED <<airdate, pending_job_list, job, search_results,
                               search_result_counter, searches, files>>
          [] answer = "unfinished" ->
                /\ job_list' = job_list \ {j}
                /\ pc' = IF job_list' = {} THEN "perform_conversions" ELSE "qt_query"
                /\ UNCHANGED <<store, airdate, pending_job_list, job, search_results,
                               search_result_counter, searches, files>>
          [] OTHER ->
                /\ Raise
                /\ UNCHANGED store
    /\ UNCHANGED <<nextId, today, torrents, staging, final, kills, finder, submitted, unparseable, output, commands>>
    /\ quiet' = QuietUnlessWritten

\* ----------------------------------------------------- perform_conversions
\* args.skip_convert is set: process_jobs skips the conversion stage and returns.
SkipConversions ==
    /\ pc = "perform_conversions"
    /\ Return
    /\ UNCHANGED <<store, nextId, today, torrents, staging, final, kills, finder, submitted, unparseable, output, commands, quiet>>

\* args.skip_convert is not set and perform_conversions starts: the pending jobs are listed; without any it
\* returns, and so does process_jobs.
BeginConversions ==
    /\ pc = "perform_conversions"
    /\ IF get_jobs_by_status(store, PENDING) = {}
       THEN Return
       ELSE /\ pending_job_list' = get_jobs_by_status(store, PENDING)
            /\ job_list' = pending_job_list'
            /\ pc' = "pc_mark"
            /\ UNCHANGED <<airdate, job, search_results, search_result_counter,
                           searches, files>>
    /\ UNCHANGED <<store, nextId, today, torrents, staging, final, kills, finder, submitted, unparseable, output, commands, quiet>>

\* Mutant of Converting: the pending job is saved as completed.
Converting_AsCompleted(j) == [j EXCEPT !.status = COMPLETED]

\* The pending job as the first loop of perform_conversions saves it.
Converting(j) == [j EXCEPT !.status = CONVERTING]

\* First loop: one pending job is saved as converting.
MarkConverting ==
    /\ pc = "pc_mark"
    /\ \E j \in job_list :
        LET converting == Converting(j) IN
        /\ store' = Save(store, converting)
        /\ pending_job_list' = (pending_job_list \ {j}) \cup {converting}
        /\ job_list' = job_list \ {j}
    /\ UNCHANGED <<nextId, today, pc, airdate, job, search_results,
                   search_result_counter, searches, files, torrents, staging, final, kills, finder, submitted, unparseable, output, commands>>
    /\ quiet' = QuietUnlessWritten

\* Mutant of MarkDone: the second loop starts as soon as one job is marked.
MarkDone_Early ==
    /\ pc = "pc_mark"
    /\ job_list # pending_job_list
    /\ job_list' = pending_job_list
    /\ pc' = "pc_convert"
    /\ UNCHANGED <<store, nextId, today, airdate, pending_job_list, job, search_results,
                   search_result_counter, searches, files, torrents, staging, final, kills, finder, submitted, unparseable, output, commands, quiet>>

\* The first loop ends and the second starts over the same jobs.
MarkDone ==
    /\ pc = "pc_mark"
    /\ job_list = {}
    /\ job_list' = pending_job_list
    /\ pc' = "pc_convert"
    /\ UNCHANGED <<store, nextId, today, airdate, pending_job_list, job, search_results,
                   search_result_counter, searches, files, torrents, staging, final, kills, finder, submitted, unparseable, output, commands, quiet>>

\* JobQueue.mark_job_complete, its save: the job is written as completed.
Completed(j) == [j EXCEPT !.status = COMPLETED]

\* copy_downloaded_files: the tree of a download-only job is copied, which may
\* raise, and mark_job_complete saves the job.
CopyDownloadedFiles(outcome) ==
    /\ pc = "pc_convert"
    /\ \E j \in job_list, answer \in outcome.call :
        /\ j.download_only
        /\ IF answer = "returns"
           THEN /\ job' = Completed(j)
                /\ store' = Save(store, job')
                /\ job_list' = job_list \ {j}
                /\ pc' = "pc_complete"
                /\ UNCHANGED <<airdate, pending_job_list, search_results,
                               search_result_counter, searches, files>>
           ELSE /\ Raise
                /\ UNCHANGED store
    /\ UNCHANGED <<nextId, today, torrents, staging, final, kills, finder, submitted, unparseable, output, commands>>
    /\ quiet' = QuietUnlessWritten

\* convert_downloaded_files starts on a job that is not download-only: the
\* directory of the download is listed (which may raise) and holds some number
\* of files matching the episode pattern.
ListDownloadedFiles(outcome) ==
    /\ pc = "pc_convert"
    /\ \E j \in job_list, answer \in outcome.call :
        /\ ~j.download_only
        /\ IF answer = "returns"
           THEN /\ \E n \in outcome.listed : files' = n
                /\ job' = j
                /\ job_list' = job_list \ {j}
                /\ pc' = "pc_file"
                /\ UNCHANGED <<airdate, pending_job_list, search_results,
                               search_result_counter, searches>>
           ELSE Raise
    /\ UNCHANGED <<store, nextId, today, torrents, staging, final, kills, finder, submitted, unparseable, output, commands, quiet>>

\* The next matching file is converted into the staging directory, which may
\* raise, and mark_job_complete saves the job.
ConvertFile(outcome) ==
    /\ pc = "pc_file"
    /\ files > 0
    /\ \E answer \in outcome.call :
        IF answer = "returns"
        THEN /\ staging' = staging \cup {job.converted_file_name}
             /\ job' = Completed(job)
             /\ store' = Save(store, job')
             /\ pc' = "pc_complete"
             /\ UNCHANGED <<airdate, job_list, pending_job_list, search_results,
                            search_result_counter, searches, files>>
        ELSE /\ Raise
             /\ UNCHANGED <<store, staging>>
    /\ UNCHANGED <<nextId, today, torrents, final, kills, finder, submitted, unparseable, output, commands>>
    /\ quiet' = QuietUnlessWritten

\* Mutant of DeletedIfStale: nothing is deleted.
DeletedIfStale_Never(st, j, now) == st

\* JobQueue.mark_job_complete, after its save: the job directory once a job
\* not added today is deleted.
DeletedIfStale(st, j, now) == IF now # j.added THEN Delete(st, j) ELSE st

\* mark_job_complete ends.
DeleteIfStale ==
    /\ pc = "pc_complete"
    /\ store' = DeletedIfStale(store, job, today)
    /\ IF job.download_only
       THEN /\ job' = NoJob
            /\ pc' = "pc_convert"
       ELSE /\ pc' = "pc_rename"
            /\ UNCHANGED job
    /\ UNCHANGED <<nextId, today, airdate, job_list, pending_job_list, search_results,
                   search_result_counter, searches, files, torrents, staging, final, kills, finder, submitted, unparseable, output, commands>>
    /\ quiet' = QuietUnlessWritten

\* The converted file is moved from the staging to the final directory, which
\* may raise.
RenameConverted(outcome) ==
    /\ pc = "pc_rename"
    /\ \E answer \in outcome.call :
        IF answer = "returns"
        THEN /\ staging' = staging \ {job.converted_file_name}
             /\ final' = final \cup {job.converted_file_name}
             /\ files' = files - 1
             /\ pc' = "pc_file"
             /\ UNCHANGED <<airdate, job_list, pending_job_list, job, search_results,
                            search_result_counter, searches>>
        ELSE /\ Raise
             /\ UNCHANGED <<staging, final>>
    /\ UNCHANGED <<store, nextId, today, torrents, kills, finder, submitted, unparseable, output, commands, quiet>>

\* No matching file is left: convert_downloaded_files returns.
FilesDone ==
    /\ pc = "pc_file"
    /\ files = 0
    /\ job' = NoJob
    /\ pc' = "pc_convert"
    /\ UNCHANGED <<store, nextId, today, airdate, job_list, pending_job_list,
                   search_results, search_result_counter, searches, files, torrents,
                   staging, final, kills, finder, submitted, unparseable, output, commands, quiet>>

\* The second loop ends: perform_conversions and process_jobs return.
ConversionsDone ==
    /\ pc = "pc_convert"
    /\ job_list = {}
    /\ Return
    /\ UNCHANGED <<store, nextId, today, torrents, staging, final, kills, finder, submitted, unparseable, output, commands, quiet>>

\* ------------------------------------------------------------ job commands
\* infieldfly.create_job ("jobs add"): create_job and one more save of the same job.
JobsAdd ==
    /\ pc = "idle"
    /\ nextId <= MaxJobs
    /\ commands < MaxCommands
    /\ commands' = commands + 1
    /\ \E a \in JobsAddArguments :
        store' = Save(store, create_job(nextId, today, a.keyword, a.search_term, FALSE))
    /\ nextId' = nextId + 1
    /\ UNCHANGED <<today, pc, airdate, job_list, pending_job_list, job, search_results,
                   search_result_counter, searches, files, torrents, staging, final, kills, finder, submitted, unparseable, output>>
    /\ quiet' = QuietUnlessWritten

\* infieldfly.find_downloads with --create-jobs starts: the searches of the
\* episodes aired in the date range are collected.
BeginFindDownloads ==
    /\ pc = "idle"
    /\ commands < MaxCommands
    /\ commands' = commands + 1
    /\ \E from_date \in 1..MaxDay, to_date \in 1..MaxDay :
        /\ from_date <= to_date
        /\ searches' = SearchesFor(from_date, to_date)
    /\ searches' # <<>>
    /\ pc' = "find_downloads"
    /\ UNCHANGED <<store, nextId, today, airdate, job_list, pending_job_list, job,
                   search_results, search_result_counter, files, torrents, staging, final,
                   kills, finder, submitted, unparseable, output, quiet>>

\* find_downloads creates the job of the next search; after the last one it returns.
FindDownloadsCreateJob ==
    /\ pc = "find_downloads"
    /\ nextId <= MaxJobs
    /\ LET s == Head(searches) IN
        store' = Save(store, create_job(nextId, today, s.keyword, s.query, s.download_only))
    /\ nextId' = nextId + 1
    /\ searches' = Tail(searches)
    /\ pc' = IF searches' = <<>> THEN "idle" ELSE "find_downloads"
    /\ UNCHANGED <<today, airdate, job_list, pending_job_list, job, search_results,
                   search_result_counter, files, torrents, staging, final, kills, finder, submitted, unparseable, output, commands>>
    /\ quiet' = QuietUnlessWritten

\* --------------------------------------------------------------------- Next
Next ==
    \/ StartProcessJobs
    \/ SkipSearches
    \/ BeginSearches
    \/ PruneCompleted
    \/ PruneDone
    \/ PromoteWaiting
    \/ PromoteDone
    \/ CreateSearchJob
    \/ SaveSearchJob
    \/ CreateDone
    \/ SearchJobQuery(AnyOutcome)
    \/ ApplySearchResult
    \/ SearchesDone
    \/ SkipAddTorrents
    \/ BeginAddTorrents
    \/ PrefetchMetadata(AnyOutcome)
    \/ AddTorrentMagnet(AnyOutcome)
    \/ SaveDownloading(AnyOutcome)
    \/ SkipQueryStatus
    \/ BeginQueryStatus
    \/ QueryTorrent(AnyOutcome)
    \/ SkipConversions
    \/ BeginConversions
    \/ MarkConverting
    \/ MarkDone
    \/ CopyDownloadedFiles(AnyOutcome)
    \/ ListDownloadedFiles(AnyOutcome)
    \/ ConvertFile(AnyOutcome)
    \/ DeleteIfStale
    \/ RenameConverted(AnyOutcome)
    \/ FilesDone
    \/ ConversionsDone
    \/ JobsAdd
    \/ BeginFindDownloads
    \/ FindDownloadsCreateJob
    \/ Kill
    \/ NextDay

Spec == Init /\ [][Next]_vars

\* ---------------------------------------------------------------- HappySpec
\* The steps of process_jobs called without skip flags, when every call to a
\* collaborator succeeds, every search finds something, every queried
\* download has finished and every download holds a matching file.
ProcessJobs ==
    \/ StartProcessJobs
    \/ BeginSearches
    \/ PruneCompleted
    \/ PruneDone
    \/ PromoteWaiting
    \/ PromoteDone
    \/ CreateSearchJob
    \/ SaveSearchJob
    \/ CreateDone
    \/ SearchJobQuery(HappyOutcome)
    \/ ApplySearchResult
    \/ SearchesDone
    \/ BeginAddTorrents
    \/ PrefetchMetadata(HappyOutcome)
    \/ AddTorrentMagnet(HappyOutcome)
    \/ SaveDownloading(HappyOutcome)
    \/ BeginQueryStatus
    \/ QueryTorrent(HappyOutcome)
    \/ BeginConversions
    \/ MarkConverting
    \/ MarkDone
    \/ CopyDownloadedFiles(HappyOutcome)
    \/ ListDownloadedFiles(HappyOutcome)
    \/ ConvertFile(HappyOutcome)
    \/ DeleteIfStale
    \/ RenameConverted(HappyOutcome)
    \/ FilesDone
    \/ ConversionsDone

\* Those steps, the job commands, the passing of days, and the process being
\* killed between two steps.
HappyNext ==
    \/ ProcessJobs
    \/ JobsAdd
    \/ BeginFindDownloads
    \/ FindDownloadsCreateJob
    \/ Kill
    \/ NextDay

HappySpec == Init /\ [][HappyNext]_vars

\* process_jobs is called again and again (by a timer), a started invocation
\* or command runs on until it ends or is killed, and days pass.
FairSpec ==
    /\ HappySpec
    /\ WF_vars(ProcessJobs)
    /\ WF_vars(FindDownloadsCreateJob)

\* ------------------------------------------------ job commands, step by step
\* The job commands run on a job directory left by earlier runs, with Job.save
\* taken in its two steps (the file is opened for writing, which empties it,
\* and the dictionary is dumped into it), so that a kill can fall between them.
MaxAdminJobs == 2
MaxAdminCommands == 3

\* The variables of process_jobs and of the collaborators, which the job
\* commands leave alone.
stage_vars == <<today, airdate, pending_job_list, search_results, search_result_counter,
                searches, files, torrents, staging, final, kills, finder, quiet, submitted>>

\* A job file as jobs add wrote it on the first day, with the status that an
\* earlier run, another version of the program or an editor left in it.
StoredJob(id, status) ==
    [create_job(id, 1, "x", <<"x", "teamsearch">> \o EpisodeTag(1, 2), FALSE)
        EXCEPT !.status = status]

AdminInit ==
    /\ \E ids \in SUBSET (1..MaxAdminJobs) :
          \E status \in [ids -> PersistedStatus] :
              store = [i \in ids |-> StoredJob(i, status[i])]
    /\ nextId = MaxAdminJobs + 1
    /\ today = 1
    /\ pc = "idle"
    /\ airdate = 0
    /\ job_list = {}
    /\ pending_job_list = {}
    /\ job = NoJob
    /\ search_results = <<>>
    /\ search_result_counter = 0
    /\ searches = <<>>
    /\ files = 0
    /\ torrents = {}
    /\ staging = {}
    /\ final = {}
    /\ kills = 0
    /\ commands = 0
    /\ quiet = 0
    /\ submitted = {}
    /\ unparseable = {}
    /\ output = NoOutput
    /\ finder = TorrentDataProvider

\* Job.load raises (json.load) on a file whose text is not a JSON document,
\* and load_jobs lets the exception pass.
load_jobs_raises(unparseable_files) == unparseable_files # {}

\* What a command that ended in an exception leaves on the terminal.
Traceback(command) ==
    [command |-> command, raised |-> TRUE, found |-> FALSE, id |-> 0, lines |-> {}]

\* "==" between a command line argument (a str) and a member of JobStatus (an
\* Enum that is not a str) is False whatever the two are.
ArgumentEqualsMember(argument, member) == FALSE

\* The status arguments tried for jobs list and jobs clear: none, and a value
\* of JobStatus.
StatusArguments == {None, COMPLETED}

\* JobQueue.get_job_by_id (when every file parses): the jobs with that id.
get_job_by_id(st, job_id) == {j \in load_jobs(st) : j.id = job_id}

\* Job.status_description, without the name it quotes.
status_description(j) ==
    CASE j.status = WAITING -> "Waiting to search for"
      [] j.status = SEARCHING -> "Searching using search term"
      [] j.status = ADDING -> "Adding download for"
      [] j.status = DOWNLOADING -> "Downloading"
      [] j.status = PENDING -> "Pending conversion of finished download"
      [] j.status = CONVERTING -> "Converting"
      [] j.status = COMPLETED ->
            IF j.download_only THEN "Completed download of" ELSE "Completed conversion to"
      [] OTHER -> "Unknown status -"

\* infieldfly.create_job ("jobs add") starts: create_job makes the job.
JobsAddStart ==
    /\ pc = "idle"
    /\ nextId <= MaxJobs
    /\ commands < MaxAdminCommands
    /\ commands' = commands + 1
    /\ \E a \in JobsAddArguments :
        job' = create_job(nextId, today, a.keyword, a.search_term, FALSE)
    /\ nextId' = nextId + 1
    /\ pc' = "create_job_open"
    /\ UNCHANGED <<store, job_list, unparseable, output, stage_vars>>

\* Job.save opens the file of the job for writing: the file exists and is
\* empty, whatever it held.
SaveOpen ==
    /\ pc \in {"create_job_open", "jobs_add_open", "jobs_update_open"}
    /\ store' = [i \in DOMAIN store \ {job.id} |-> store[i]]
    /\ unparseable' = unparseable \cup {job.id}
    /\ pc' = CASE pc = "create_job_open" -> "create_job_dump"
               [] pc = "jobs_add_open" -> "jobs_add_dump"
               [] pc = "jobs_update_open" -> "jobs_update_dump"
    /\ UNCHANGED <<nextId, job, job_list, commands, output, stage_vars>>

\* Job.save dumps the dictionary into the file and closes it; after the save
\* of create_job comes that of infieldfly.create_job, after which the command
\* ends, as jobs update does after its save.
SaveDump ==
    /\ pc \in {"create_job_dump", "jobs_add_dump", "jobs_update_dump"}
    /\ store' = Save(store, job)
    /\ unparseable' = unparseable \ {job.id}
    /\ IF pc = "create_job_dump"
       THEN pc' = "jobs_add_open" /\ UNCHANGED job
       ELSE pc' = "idle" /\ job' = NoJob
    /\ UNCHANGED <<nextId, job_list, commands, output, stage_vars>>

\* infieldfly.list_jobs ("jobs list"): one line for each job, or for none when
\* a status is given.
JobsList ==
    /\ pc = "idle"
    /\ commands < MaxAdminCommands
    /\ commands' = commands + 1
    /\ \E status \in StatusArguments :
        output' =
            IF load_jobs_raises(unparseable) THEN Traceback("list")
            ELSE [command |-> "list", raised |-> FALSE, found |-> FALSE, id |-> 0,
                  lines |-> {[id |-> j.id, text |-> status_description(j)] :
                                j \in {x \in load_jobs(store) :
                                          \/ status = None
                                          \/ ArgumentEqualsMember(status, x.status)}}]
    /\ UNCHANGED <<store, nextId, pc, job, job_list, unparseable, stage_vars>>

\* infieldfly.show_job ("jobs show"): the value of the status of the job with
\* the given id, among other lines.
JobsShow ==
    /\ pc = "idle"
    /\ commands < MaxAdminCommands
    /\ commands' = commands + 1
    /\ \E job_id \in 1..MaxJobs :
        output' =
            IF load_jobs_raises(unparseable) THEN Traceback("show")
            ELSE [command |-> "show", raised |-> FALSE,
                  found |-> get_job_by_id(store, job_id) # {}, id |-> job_id,
                  lines |-> {[id |-> j.id, text |-> j.status] :
                                j \in get_job_by_id(store, job_id)}]
    /\ UNCHANGED <<store, nextId, pc, job, job_list, unparseable, stage_vars>>

\* infieldfly.delete_job ("jobs remove"), which can be run from another shell
\* while jobs clear is at work: the job with the given id is deleted if there is one.
JobsRemove ==
    /\ pc \in {"idle", "jobs_clear"}
    /\ commands < MaxAdminCommands
    /\ commands' = commands + 1
    /\ \E job_id \in 1..MaxJobs :
        IF load_jobs_raises(unparseable)
        THEN output' = Traceback("remove") /\ UNCHANGED store
        ELSE /\ output' = [command |-> "remove", raised |-> FALSE,
                           found |-> get_job_by_id(store, job_id) # {}, id |-> job_id,
                           lines |-> {}]
             /\ store' = IF get_job_by_id(store, job_id) # {}
                         THEN Delete(store, CHOOSE j \in get_job_by_id(store, job_id) : TRUE)
                         ELSE store
    /\ UNCHANGED <<nextId, pc, job, job_list, unparseable, stage_vars>>

\* What the command line of "jobs update" is given in the model: as status a
\* value of JobStatus or a word that is none, and a magnet URL or none.
UpdateStatusArguments == {ADDING, WAITING, "Adding"}

UpdateMagnetArguments == {None, TorrentResults[1].magnet_link}

\* The "dn" parameter of a magnet URL.
MagnetDisplayName(magnet_url) == "dn of " \o magnet_url

\* TorrentDataProvider.create_torrent_result(magnet_url): the hash of the URL's
\* "xt" parameter and, as no title is given, the title of its "dn" parameter.
create_torrent_result(magnet_url) ==
    [title |-> MagnetDisplayName(magnet_url), magnet_link |-> magnet_url,
     hash |-> TorrentId(magnet_url)]

\* infieldfly.update_job ("jobs update"): without such a job, or with a status
\* that is no value of JobStatus, a line is printed; with the status adding
\* and a magnet URL the search result of the URL is made and
\* job_queue.set_job_search_result is looked up, which JobQueue does not have
\* (AttributeError); else the job is given the status and saved.
JobsUpdate(job_id, status, magnet_url) ==
    /\ pc = "idle"
    /\ commands < MaxAdminCommands
    /\ commands' = commands + 1
    /\ IF load_jobs_raises(unparseable)
       THEN output' = Traceback("update") /\ UNCHANGED <<pc, job>>
       ELSE IF get_job_by_id(store, job_id) = {} \/ status \notin JobStatus
       THEN /\ output' = [command |-> "update", raised |-> FALSE,
                          found |-> get_job_by_id(store, job_id) # {}, id |-> job_id,
                          lines |-> {}]
            /\ UNCHANGED <<pc, job>>
       ELSE IF status = ADDING /\ magnet_url # None
       THEN /\ create_torrent_result(magnet_url).magnet_link = magnet_url
            /\ output' = Traceback("update")
            /\ UNCHANGED <<pc, job>>
       ELSE /\ output' = [command |-> "update", raised |-> FALSE, found |-> TRUE,
                          id |-> job_id, lines |-> {}]
            /\ job' = [(CHOOSE j \in get_job_by_id(store, job_id) : TRUE)
                          EXCEPT !.status = JobStatusOf(status)]
            /\ pc' = "jobs_update_open"
    /\ UNCHANGED <<store, nextId, job_list, unparseable, stage_vars>>

\* infieldfly.clear_jobs ("jobs clear") starts: the jobs are loaded, and those
\* to delete are all of them without a status argument and none with one.
JobsClearStart ==
    /\ pc = "idle"
    /\ commands < MaxAdminCommands
    /\ commands' = commands + 1
    /\ \E status \in StatusArguments :
        IF load_jobs_raises(unparseable)
        THEN output' = Traceback("clear") /\ UNCHANGED <<pc, job_list>>
        ELSE /\ output' = [command |-> "clear", raised |-> FALSE, found |-> FALSE, id |-> 0,
                           lines |-> {}]
             /\ job_list' = {x \in load_jobs(store) :
                                \/ status = None
                                \/ ArgumentEqualsMember(status, x.status)}
             /\ pc' = "jobs_clear"
    /\ UNCHANGED <<store, nextId, job, unparseable, stage_vars>>

\* clear_jobs deletes the next of the jobs it loaded.
JobsClearDelete ==
    /\ pc = "jobs_clear"
    /\ \E j \in job_list :
        /\ job' = j
        /\ store' = Delete(store, j)
        /\ job_list' = job_list \ {j}
    /\ UNCHANGED <<nextId, pc, commands, unparseable, output, stage_vars>>

\* clear_jobs returns.
JobsClearDone ==
    /\ pc = "jobs_clear"
    /\ job_list = {}
    /\ pc' = "idle"
    /\ job' = NoJob
    /\ UNCHANGED <<store, nextId, job_list, commands, unparseable, output, stage_vars>>

AdminNext ==
    \/ JobsAddStart
    \/ SaveOpen
    \/ SaveDump
    \/ JobsList
    \/ JobsShow
    \/ JobsRemove
    \/ JobsClearStart
    \/ JobsClearDelete
    \/ JobsClearDone
    \/ \E job_id \in 1..MaxJobs, status \in UpdateStatusArguments,
          magnet_url \in UpdateMagnetArguments : JobsUpdate(job_id, status, magnet_url)
    \/ Kill

AdminSpec == AdminInit /\ [][AdminNext]_vars

\* ------------------------------------------- TorrentDataProvider.search
\* The search call that SearchJobQuery takes in one step, request by request.
\* SearchSpec starts where perform_searches has listed its searching jobs and
\* made its TorrentDataProvider, and runs the loop over them; the retry count
\* is the argument of search (perform_searches passes 4), drawn per call.
MaxSearchingJobs == 2
MaxRetryCount == 4

\* What requests.get can come to for the search request and for the token
\* request: it raises, the status is 520, the status is neither 200 nor 520,
\* or the status is 200 with a body that is no JSON document, that has an
\* "error" entry, or that holds what was asked for.
SearchAnswers ==
    {[kind |-> k, found |-> 0] : k \in {"exception", "520", "404", "unparseable", "error"}}
        \cup {[kind |-> "torrent_results", found |-> n] : n \in 0..MaxResults}

TokenAnswers ==
    {[kind |-> k, found |-> 0] :
        k \in {"exception", "520", "404", "unparseable", "error", "token"}}

\* The variables no step of the search loop changes.
search_frame == <<today, airdate, pending_job_list, searches, files, torrents, staging,
                  final, kills, commands, quiet, submitted, unparseable, output>>

\* The searching jobs are listed, the provider is made.
SearchInit ==
    /\ \E n \in 1..MaxSearchingJobs :
        /\ store = [i \in 1..n |-> StoredJob(i, SEARCHING)]
        /\ nextId = n + 1
    /\ job_list = get_jobs_by_status(store, SEARCHING)
    /\ pc = "ps_search"
    /\ today = 1
    /\ airdate = 1
    /\ pending_job_list = {}
    /\ job = NoJob
    /\ search_results = <<>>
    /\ search_result_counter = 0
    /\ searches = <<>>
    /\ files = 0
    /\ torrents = {}
    /\ staging = {}
    /\ final = {}
    /\ kills = 0
    /\ commands = 0
    /\ quiet = 0
    /\ submitted = {}
    /\ unparseable = {}
    /\ output = NoOutput
    /\ finder = TorrentDataProvider

\* response.json() raises on a body that is no JSON document.
get_data_raises(answer) == answer.kind = "unparseable"

\* TorrentDataProvider.get_data: the error dictionary when requests.get raised
\* or the status is 520, None for any other status than 200, else the body.
get_data(answer) ==
    IF answer.kind \in {"exception", "520", "error"} THEN ErrorResponse
    ELSE IF answer.kind = "404" THEN NoResponse
    ELSE [none |-> FALSE, error |-> FALSE, found |-> answer.found]

\* perform_searches calls finder.search for the next listed job; search asks
\* for a token first if the provider holds none.
SearchStart ==
    /\ pc = "ps_search"
    /\ \E j \in job_list, retry_count \in 0..MaxRetryCount :
        /\ job' = j
        /\ job_list' = job_list \ {j}
        /\ finder' = [finder EXCEPT !.retry_argument = retry_count,
                                    !.retry_count = retry_count,
                                    !.token_requests = 0,
                                    !.search_requests = 0,
                                    !.responses = <<>>,
                                    !.search_response = NoResponse]
    /\ pc' = IF finder.token = None THEN "get_token" ELSE "search"
    /\ UNCHANGED <<store, nextId, search_results, search_result_counter, search_frame>>

\* TorrentDataProvider.get_token: one request; the token is kept unless the
\* response is None or has an "error" entry.
GetToken ==
    /\ pc = "get_token"
    /\ \E answer \in TokenAnswers :
        IF get_data_raises(answer)
        THEN /\ Raise
             /\ finder' = [finder EXCEPT !.token_requests = @ + 1]
        ELSE /\ finder' = [finder EXCEPT
                              !.token_requests = @ + 1,
                              !.token = IF get_data(answer).none \/ get_data(answer).error
                                        THEN None ELSE "token"]
             /\ pc' = "search"
             /\ UNCHANGED <<airdate, job_list, pending_job_list, job, search_results,
                            search_result_counter, searches, files>>
    /\ UNCHANGED <<store, nextId, today, torrents, staging, final, kills, commands, quiet,
                   submitted, unparseable, output>>

\* The first search request of the call.
SearchGetData ==
    /\ pc = "search"
    /\ \E answer \in SearchAnswers :
        IF get_data_raises(answer)
        THEN /\ Raise
             /\ finder' = [finder EXCEPT !.search_requests = @ + 1]
        ELSE /\ finder' = [finder EXCEPT !.search_requests = @ + 1,
                                         !.search_response = get_data(answer),
                                         !.responses = Append(@, get_data(answer))]
             /\ pc' = "search_retry"
             /\ UNCHANGED <<airdate, job_list, pending_job_list, job, search_results,
                            search_result_counter, searches, files>>
    /\ UNCHANGED <<store, nextId, today, torrents, staging, final, kills, commands, quiet,
                   submitted, unparseable, output>>

\* Mutant of ShouldRetry: one more retry than the count.
ShouldRetry_OnceMore(search_response, retry_count) ==
    ~search_response.none /\ search_response.error /\ retry_count >= 0

\* The condition of search's retry loop.
ShouldRetry(search_response, retry_count) ==
    ~search_response.none /\ search_response.error /\ retry_count > 0

\* One turn of the retry loop: after its sleep the request is sent again.
SearchRetry ==
    /\ pc = "search_retry"
    /\ ShouldRetry(finder.search_response, finder.retry_count)
    /\ \E answer \in SearchAnswers :
        IF get_data_raises(answer)
        THEN /\ Raise
             /\ finder' = [finder EXCEPT !.search_requests = @ + 1, !.retry_count = @ - 1]
        ELSE /\ finder' = [finder EXCEPT !.search_requests = @ + 1,
                                         !.retry_count = @ - 1,
                                         !.search_response = get_data(answer),
                                         !.responses = Append(@, get_data(answer))]
             /\ UNCHANGED <<pc, airdate, job_list, pending_job_list, job, search_results,
                            search_result_counter, searches, files>>
    /\ UNCHANGED <<store, nextId, today, torrents, staging, final, kills, commands, quiet,
                   submitted, unparseable, output>>

\* What search returns for the response its loop ended with.
torrent_results(search_response) ==
    IF search_response.none \/ search_response.error THEN <<>>
    ELSE SearchResults(search_response.found)

\* search returns; perform_searches saves the job as waiting when the list is
\* empty, else starts the loop over the results.
SearchReturn ==
    /\ pc = "search_retry"
    /\ ~ShouldRetry(finder.search_response, finder.retry_count)
    /\ IF Len(torrent_results(finder.search_response)) = 0
       THEN /\ store' = Save(store, Requeued(job))
            /\ job' = NoJob
            /\ pc' = "ps_search"
            /\ UNCHANGED <<search_results, search_result_counter>>
       ELSE /\ search_results' = torrent_results(finder.search_response)
            /\ search_result_counter' = 0
            /\ pc' = "ps_result"
            /\ UNCHANGED <<store, job>>
    /\ UNCHANGED <<nextId, job_list, finder, search_frame>>

SearchNext ==
    \/ SearchStart
    \/ GetToken
    \/ SearchGetData
    \/ SearchRetry
    \/ SearchReturn
    \/ ApplySearchResult
    \/ SearchesDone

\* The process keeps running: the sleeps between the requests are finite.
SearchSpec == SearchInit /\ [][SearchNext]_vars /\ WF_vars(SearchNext)

\* =============================================================== properties
\* The status transitions of section 4.1 that the stage operations make.
StageTransitions ==
    { <<WAITING, SEARCHING>>, <<SEARCHING, ADDING>>, <<SEARCHING, WAITING>>,
      <<ADDING, DOWNLOADING>>, <<DOWNLOADING, PENDING>>, <<PENDING, CONVERTING>>,
      <<CONVERTING, COMPLETED>> }

\* A step of one of the four stage operations of process_jobs.
StageStep == pc \notin {"idle", "find_downloads"}

\* C1: whenever a step of perform_searches, add_torrents, query_torrents_status
\* or perform_conversions writes a job record that existed before with another
\* status than it had, the pair (status before, status after) is one of
\* WAITING->SEARCHING, SEARCHING->ADDING, SEARCHING->WAITING, ADDING->DOWNLOADING,
\* DOWNLOADING->PENDING, PENDING->CONVERTING, CONVERTING->COMPLETED.
C1_StageTransitionsOnly ==
    [][StageStep =>
         \A i \in DOMAIN store \cap DOMAIN store' :
             store'[i].status # store[i].status
                 => <<store[i].status, store'[i].status>> \in StageTransitions]_vars

\* C1 witness: mark_job_complete has written a job as completed while the job
\* directory holds a job that a search without results set back to waiting (no
\* command has created a job and no kill has cut a creation short).
C1_Witness ==
    /\ pc = "pc_complete"
    /\ job.status = COMPLETED
    /\ commands = 0 /\ kills = 0
    /\ \E i \in DOMAIN store : store[i].status = WAITING

\* A step by which process_jobs returns (it neither raises nor is killed): the
\* conversion stage is skipped, finds no pending job, or ends its second loop.
ProcessJobsReturns ==
    /\ pc' = "idle"
    /\ kills' = kills
    /\ \/ pc = "perform_conversions"
       \/ pc = "pc_convert" /\ job_list = {}

\* The jobs of a job directory that are not completed.
Unfinished(st) == {i \in DOMAIN st : st[i].status # COMPLETED}

\* Under HappySpec, a process_jobs invocation of a behaviour without kills
\* takes every job to completed before it returns: the terminal job directory
\* of uninterrupted runs holds completed jobs only.
UninterruptedRunsComplete ==
    [][ProcessJobsReturns /\ kills = 0 => Unfinished(store') = {}]_vars

\* C2 (under HappySpec, where all collaborators answer with success): killing
\* the engine after a persisted status write and running process_jobs again
\* ends in the terminal job directory of an uninterrupted run, that is,
\* whenever process_jobs returns, killed before or not, no job is left in a
\* status other than completed.
C2_CrashResume ==
    [][ProcessJobsReturns => Unfinished(store') = {}]_vars

\* C3 (under FairSpec): a job persisted as converting while no invocation runs
\* is eventually completed (and then deleted, if added on an earlier day);
\* nothing is asked of behaviours the bound on job ids brings to a halt.
C3_ConvertingIsResumed ==
    \A i \in 1..MaxJobs :
        (pc = "idle" /\ i \in DOMAIN store /\ store[i].status = CONVERTING)
            ~> (i \notin DOMAIN store \/ store[i].status = COMPLETED \/ nextId > MaxJobs)

\* The jobs of a job directory that hold a keyword and a query.
Holders(st, keyword, query) ==
    {i \in DOMAIN st : st[i].keyword = keyword /\ st[i].query = query}

\* The jobs a step creates: those under ids not handed out before.
Created == {i \in DOMAIN store' : i >= nextId}

\* C4 as stated: no two jobs that are not completed hold the same keyword and
\* query.
C4_OneJobPerQuery ==
    \A i \in DOMAIN store, k \in DOMAIN store :
        (/\ i # k
         /\ store[i].keyword = store[k].keyword
         /\ store[i].query = store[k].query)
            => store[i].status = COMPLETED \/ store[k].status = COMPLETED

\* C4 amended: a job whose keyword and query another job of the job directory
\* holds, in whatever status, is created only as the clone for a further result
\* of one search, or by one of the commands jobs add and search --create-jobs;
\* create_new_search_jobs creates a job only for a keyword and query that no
\* job holds.
C4_DiscoveryNeverDuplicates ==
    [][\A i \in Created :
           Holders(store, store'[i].keyword, store'[i].query) # {}
               => pc \in {"ps_result", "idle", "find_downloads"}]_vars

\* C4 witness: create_new_search_jobs has visited every search of the day
\* while two jobs that are not completed hold the same keyword and query.
C4_Witness ==
    /\ pc = "ps_create"
    /\ searches = <<>>
    /\ airdate = 1
    /\ \E i \in Unfinished(store), k \in Unfinished(store) :
          i # k /\ k \in Holders(store, store[i].keyword, store[i].query)

\* C5: in a run of perform_searches in which no search finds anything, and
\* which follows a run of that kind for the same date with no write to the job
\* directory in between, no job is created and the number of jobs of each
\* keyword and query stays what it was after the first run.
C5_SecondQuietRunCreatesNothing ==
    [][quiet = 3 =>
         /\ nextId' = nextId
         /\ \A j \in load_jobs(store) \cup load_jobs(store') :
               Cardinality(Holders(store', j.keyword, j.query))
                   = Cardinality(Holders(store, j.keyword, j.query))]_vars

\* C5 witness: the second such run has returned, with jobs in the job
\* directory and ids left to create more.
C5_Witness ==
    /\ quiet = 4
    /\ nextId <= MaxJobs
    /\ \E i \in DOMAIN store : store[i].status = WAITING /\ store[i].added = today

\* The id of the job that took result k of a fan-out over n results which has
\* just ended: the searched job for the first result, else one of the n - 1
\* ids handed out last.
FanOutId(k, n) == IF k = 1 THEN job.id ELSE nextId' - n + k - 1

\* C6: every step of the loop over the results of a search writes exactly one
\* job, the searched job for the first result and a job under a new id for each
\* further one; and when the loop over n >= 1 results ends, the n jobs so
\* written are in status ADDING, carry the keyword, query, added date and
\* download-only flag of the searched job, each the magnet link, title and hash
\* of its own result, under pairwise distinct ids and with pairwise distinct
\* converted file names.
C6_FanOut ==
    [][(pc = "ps_result" /\ pc' # "idle") =>
         LET n == Len(search_results)
             k == search_result_counter + 1
             written == IF k = 1 THEN job.id ELSE nextId
         IN /\ nextId' = IF k = 1 THEN nextId ELSE nextId + 1
            /\ DOMAIN store' = DOMAIN store \cup {written}
            /\ \A i \in DOMAIN store \ {written} : store'[i] = store[i]
            /\ pc' = "ps_search" =>
                 /\ k = n
                 /\ \A r \in 1..n :
                       /\ FanOutId(r, n) \in DOMAIN store'
                       /\ store'[FanOutId(r, n)].status = ADDING
                       /\ store'[FanOutId(r, n)].keyword = job.keyword
                       /\ store'[FanOutId(r, n)].query = job.query
                       /\ store'[FanOutId(r, n)].added = job.added
                       /\ store'[FanOutId(r, n)].download_only = job.download_only
                       /\ store'[FanOutId(r, n)].magnet_link = search_results[r].magnet_link
                       /\ store'[FanOutId(r, n)].title = search_results[r].title
                       /\ store'[FanOutId(r, n)].torrent_hash = search_results[r].hash
                 /\ \A r \in 1..n, t \in 1..n :
                       r # t =>
                         /\ FanOutId(r, n) # FanOutId(t, n)
                         /\ store'[FanOutId(r, n)].converted_file_name
                                # store'[FanOutId(t, n)].converted_file_name]_vars

\* C6 witness: the loop over the searching jobs goes on after a search with
\* MaxResults results: the searched job and its copies are in status ADDING,
\* one for each result.
C6_Witness ==
    /\ pc = "ps_search"
    /\ \E f \in [1..MaxResults -> DOMAIN store] :
          /\ \A r \in 1..MaxResults :
                /\ store[f[r]].status = ADDING
                /\ store[f[r]].magnet_link = TorrentResults[r].magnet_link
                /\ store[f[r]].query = store[f[1]].query
          /\ \A r \in 1..MaxResults, t \in 1..MaxResults : r # t => f[r] # f[t]

\* C7: a search without results writes the searched job, till then persisted
\* as searching, with status WAITING and nothing else changed; when
\* create_new_search_jobs starts in a run of perform_searches no job is left
\* waiting (each has been written as searching); the jobs then searched are all
\* the searching jobs; and perform_searches does not return before each of them
\* has been searched.
C7_NoResultRegression ==
    [][/\ (pc = "ps_search" /\ pc' = "ps_search" /\ job_list' # job_list) =>
            \E j \in job_list \ job_list' :
                /\ j.id \in DOMAIN store
                /\ store[j.id].status = SEARCHING
                /\ store' = [store EXCEPT ![j.id].status = WAITING]
       /\ pc' = "ps_create" => get_jobs_by_status(store', WAITING) = {}
       /\ (pc = "ps_create" /\ pc' = "ps_search") =>
            job_list' = get_jobs_by_status(store, SEARCHING)
       /\ (pc = "ps_search" /\ pc' = "add_torrents") => job_list = {}]_vars

\* C7 witness: in a run of perform_searches that follows one in which no
\* search found anything, a job set back to waiting then has been searched
\* again and set back to waiting again.
C7_Witness ==
    /\ pc = "ps_search"
    /\ quiet = 3
    /\ commands = 0 /\ kills = 0
    /\ \E i \in DOMAIN store : store[i].status = WAITING

\* C8: when process_jobs returns, whichever stages it ran or skipped, no
\* completed job added on another day than today is left in the job directory;
\* and no step of an invocation deletes a completed job added today.
C8_StalePruning ==
    [][/\ ProcessJobsReturns => completed_job_list(store', today) = {}
       /\ pc # "idle" =>
            \A i \in DOMAIN store :
                (store[i].status = COMPLETED /\ store[i].added = today)
                    => i \in DOMAIN store']_vars

\* C9: the step that ends copy_downloaded_files or one conversion writes the
\* job as completed; and when mark_job_complete returns, the job is absent
\* from the job directory if it was not added today, and present with status
\* COMPLETED if it was.
C9_MarkJobComplete ==
    [][/\ (pc \in {"pc_convert", "pc_file"} /\ pc' = "pc_complete") =>
            /\ job'.id \in DOMAIN store'
            /\ store'[job'.id].status = COMPLETED
       /\ (pc = "pc_complete" /\ pc' # "idle") =>
            IF job.added # today
            THEN job.id \notin DOMAIN store'
            ELSE job.id \in DOMAIN store' /\ store'[job.id].status = COMPLETED]_vars

\* C9 witness: mark_job_complete has returned for a job that is not
\* download-only and was added on an earlier day, and its record is gone,
\* while a completed job added today is in the job directory.
C9_Witness ==
    /\ pc = "pc_rename"
    /\ job.added # today
    /\ job.id \notin DOMAIN store
    /\ \E i \in DOMAIN store : store[i].status = COMPLETED /\ store[i].added = today

\* C10: a step of add_torrents either writes nothing to the job directory or
\* is the save after the torrent status was read; the job add_torrents works
\* on is persisted as adding until then; and whenever a job becomes
\* downloading in the job directory, its record holds the id the daemon
\* derives from its magnet link, the download location and a name from the
\* daemon, and the daemon has accepted its magnet link.
C10_AddTorrents ==
    [][/\ pc \in {"at_prefetch", "at_add", "at_status"} =>
            \/ store' = store
            \/ pc = "at_status" /\ pc' # "idle"
       /\ pc' \in {"at_add", "at_status"} =>
            job'.id \in DOMAIN store' /\ store'[job'.id].status = ADDING
       /\ \A i \in DOMAIN store' :
            (/\ store'[i].status = DOWNLOADING
             /\ i \in DOMAIN store => store[i].status # DOWNLOADING) =>
                /\ store'[i].torrent_hash = TorrentId(store'[i].magnet_link)
                /\ store'[i].torrent_hash # None
                /\ store'[i].download_directory = DownloadLocation
                /\ store'[i].name \in {MetadataName(store'[i].torrent_hash),
                                        StatusName(store'[i].torrent_hash)}
                /\ store'[i].name # NoneSeq
                /\ store'[i].magnet_link \in torrents']_vars

\* C10 witness: an invocation has ended with one job downloading, named by
\* the torrent status for want of a name in the metadata, and another job
\* still adding although the daemon has accepted its magnet link (reading the
\* torrent status raised).
C10_Witness ==
    /\ pc = "idle"
    /\ kills = 0
    /\ \E i \in DOMAIN store, k \in DOMAIN store :
          /\ store[i].status = DOWNLOADING
          /\ store[i].name = StatusName(store[i].torrent_hash)
          /\ store[k].status = ADDING
          /\ store[k].magnet_link \in torrents
          /\ store[k].magnet_link # store[i].magnet_link

\* C11 (under HappySpec, with kills): add_torrents hands the magnet link of a
\* job to the daemon only if it has not handed that job's link to it before,
\* in this or an earlier invocation.
C11_SubmittedOnce ==
    [][(pc = "at_add" /\ pc' = "at_status") => job.id \notin submitted]_vars

\* Where add_torrents stands inside its loop over the adding jobs.
AddTorrentsLoop == {"at_prefetch", "at_add", "at_status"}

\* C12: add_torrents leaves its loop, by a return or by an exception, only
\* when no listed job other than the one it is working on is left to submit.
C12_FailureIsolated ==
    [][(pc \in AddTorrentsLoop /\ pc' \notin AddTorrentsLoop /\ kills' = kills) =>
          Cardinality(job_list) <= (IF pc = "at_prefetch" THEN 1 ELSE 0)]_vars

\* The outcomes in which the daemon answers a torrent status query in one way.
Reporting(answer) == [AnyOutcome EXCEPT !.torrent = {answer}]

\* C13: a step of query_torrents_status in which the daemon reports the
\* torrent of a job as not finished writes nothing; one in which it reports it
\* as finished writes that job, persisted as downloading, as pending with the
\* name of the torrent status and nothing else changed; and no other step of
\* the loop of query_torrents_status writes to the job directory.
C13_QueryTorrentsStatus ==
    [][/\ QueryTorrent(Reporting("unfinished")) => store' = store
       /\ QueryTorrent(Reporting("finished")) =>
            \E j \in job_list \ job_list' :
                /\ j.id \in DOMAIN store
                /\ store[j.id].status = DOWNLOADING
                /\ store' = [store EXCEPT
                                ![j.id].status = PENDING,
                                ![j.id].name = StatusName(store[j.id].torrent_hash)]
       /\ (pc = "qt_query" /\ kills' = kills /\ store' # store) =>
            QueryTorrent(Reporting("finished"))]_vars

\* C13 witness: query_torrents_status has returned, leaving one job pending
\* under the name of the torrent status (add_torrents had named it after the
\* metadata) and another job, whose torrent is not finished, downloading.
C13_Witness ==
    /\ pc = "perform_conversions"
    /\ kills = 0
    /\ \E i \in DOMAIN store, k \in DOMAIN store :
          /\ store[i].status = PENDING
          /\ MetadataName(store[i].torrent_hash) # NoneSeq
          /\ store[i].name = StatusName(store[i].torrent_hash)
          /\ store[k].status = DOWNLOADING
          /\ store[k].added = store[i].added

\* The four points at which process_jobs reads a skip flag, in its order, and
\* the stage an invocation stands in (0 when process_jobs is not running).
Stages == <<"perform_searches", "add_torrents", "query_torrents_status", "perform_conversions">>

StageOf(p) ==
    CASE p \in {"perform_searches", "ps_prune", "ps_promote", "ps_create", "ps_create_save",
                "ps_search", "ps_result"} -> 1
      [] p \in {"add_torrents", "at_prefetch", "at_add", "at_status"} -> 2
      [] p \in {"query_torrents_status", "qt_query"} -> 3
      [] p \in {"perform_conversions", "pc_mark", "pc_convert", "pc_file", "pc_complete",
                "pc_rename"} -> 4
      [] OTHER -> 0

\* C14: an invocation of process_jobs starts at the search stage; it goes from
\* a stage to that stage or to the next one only; it comes to the point where
\* a stage starts from the stage before only, so that no stage starts twice;
\* a step that passes from the start of a stage straight to the start of the
\* next one (the stage is skipped, or has no job to work on), or from the
\* start of the last stage to the end, writes nothing to the job directory;
\* and at the start of each stage the stage can be run as well as skipped.
C14_StageOrder ==
    [][/\ (StageOf(pc) = 0 /\ StageOf(pc') > 0) => (pc = "idle" /\ pc' = Stages[1])
       /\ (StageOf(pc) > 0 /\ StageOf(pc') > 0) =>
            StageOf(pc') \in {StageOf(pc), StageOf(pc) + 1}
       /\ \A s \in 1..Len(Stages) :
            /\ (pc' = Stages[s] /\ pc # pc') => StageOf(pc) = s - 1
            /\ (pc = Stages[s] /\ pc' \notin {Stages[s]} /\ StageOf(pc') # s) => store' = store
       /\ pc = Stages[1] => (ENABLED BeginSearches) /\ (ENABLED SkipSearches)
       /\ pc = Stages[2] => (ENABLED BeginAddTorrents) /\ (ENABLED SkipAddTorrents)
       /\ pc = Stages[3] => (ENABLED BeginQueryStatus) /\ (ENABLED SkipQueryStatus)
       /\ pc = Stages[4] => (ENABLED BeginConversions) /\ (ENABLED SkipConversions)]_vars

\* C14 witness: the conversion stage works on a job in an invocation that
\* skipped the search stage.
C14_Witness ==
    /\ pc = "pc_mark"
    /\ airdate = 0
    /\ kills = 0
    /\ job_list # {}

\* C15 as stated: is_existing_job answers True exactly when a job that is not
\* completed holds the keyword and the query; so create_new_search_jobs, which
\* creates a job when the answer is False, leaves the job directory as it is
\* exactly when such a job exists.
C15_ExistsAmongUnfinished ==
    [][(pc = "ps_create" /\ searches # <<>> /\ pc' # "idle") =>
          LET s == Head(searches) IN
          /\ is_existing_job(store, s.keyword, s.query)
                <=> Holders(store, s.keyword, s.query) \cap Unfinished(store) # {}
          /\ store' = store
                <=> Holders(store, s.keyword, s.query) \cap Unfinished(store) # {}]_vars

\* C15 amended: is_existing_job answers True exactly when a job of the job
\* directory, in whatever status, completed included, holds the keyword and
\* the query; create_new_search_jobs leaves the job directory as it is
\* exactly then.
C15_ExistsInAnyStatus ==
    [][(pc = "ps_create" /\ searches # <<>> /\ pc' # "idle") =>
          LET s == Head(searches) IN
          /\ is_existing_job(store, s.keyword, s.query)
                <=> Holders(store, s.keyword, s.query) # {}
          /\ store' = store <=> Holders(store, s.keyword, s.query) # {}]_vars

\* C15 witness: create_new_search_jobs has visited the searches of the day
\* and created no job for one whose keyword and query only a completed job
\* holds.
C15_Witness ==
    /\ pc = "ps_create"
    /\ searches = <<>>
    /\ airdate = today
    /\ kills = 0
    /\ \E n \in 1..Len(SearchesFor(airdate, airdate)) :
          LET s == SearchesFor(airdate, airdate)[n] IN
          /\ Holders(store, s.keyword, s.query) # {}
          /\ Holders(store, s.keyword, s.query) \cap Unfinished(store) = {}

\* C19: a step of jobs add, of find_downloads or of create_new_search_jobs
\* that creates a job writes one new file, under an id no file of the job
\* directory has, holding a waiting job added today with the keyword and the
\* query the caller gave, and leaves every other file as it is; the job that
\* create_job returns to create_new_search_jobs is the job so persisted.
C19_CreateJob ==
    [][(Created # {} /\ pc \in {"idle", "find_downloads", "ps_create"}) =>
          /\ Created = {nextId}
          /\ nextId \notin DOMAIN store
          /\ nextId' = nextId + 1
          /\ store'[nextId].id = nextId
          /\ store'[nextId].status = WAITING
          /\ store'[nextId].added = today
          /\ <<store'[nextId].keyword, store'[nextId].query>> \in JobArguments
          /\ pc = "idle" =>
                \E a \in JobsAddArguments :
                    /\ store'[nextId].keyword = a.keyword
                    /\ store'[nextId].query = a.search_term
          /\ pc # "idle" =>
                /\ store'[nextId].keyword = Head(searches).keyword
                /\ store'[nextId].query = Head(searches).query
          /\ \A i \in DOMAIN store : store'[i] = store[i]
          /\ pc' = "ps_create_save" => job' = store'[nextId]]_vars

\* C19 witness: create_job has returned to create_new_search_jobs a waiting
\* job added today, which the job directory holds beside an older job.
C19_Witness ==
    /\ pc = "ps_create_save"
    /\ job.id \in DOMAIN store
    /\ store[job.id] = job
    /\ job.status = WAITING
    /\ job.added = today
    /\ \E i \in DOMAIN store : i # job.id

\* A step that is a whole run of jobs list, jobs show or jobs remove, or the
\* start of jobs clear: the commands that call load_jobs.
LoadingCommand ==
    /\ commands' # commands
    /\ pc' # "create_job_open"
    /\ output'.command # "update"

\* C16 (under AdminSpec): a command that calls load_jobs does not end in an
\* exception, whatever the files of the job directory hold, and jobs show
\* finds every job whose file parses.
C16_CorruptRecordSkipped ==
    [][LoadingCommand =>
          /\ ~output'.raised
          /\ (output'.command = "show" /\ output'.id \in DOMAIN store) => output'.found]_vars

\* C17 (under AdminSpec): when the process is killed, in Job.save or
\* elsewhere, every file of the job directory holds a whole record, the one
\* it held before the save or the one being saved.
C17_SaveIsAtomic ==
    [][kills' # kills =>
          /\ unparseable' = {}
          /\ \A i \in DOMAIN store' :
                \/ i \in DOMAIN store /\ store'[i] = store[i]
                \/ store'[i] = job]_vars

\* C18 (under AdminSpec): the step of jobs clear that deletes a job leaves the
\* job directory as it is when the job has no file (another command has
\* removed it) and goes on with the next job, removes just the file of the
\* job when it has one, and in both cases deleting the job once more would
\* change nothing.
C18_DeleteIsIdempotent ==
    [][(pc = "jobs_clear" /\ pc' = "jobs_clear" /\ job_list' # job_list) =>
          /\ job' \in job_list
          /\ job'.id \notin DOMAIN store => store' = store
          /\ job'.id \in DOMAIN store =>
                store' = [i \in DOMAIN store \ {job'.id} |-> store[i]]
          /\ Delete(store', job') = store'
          /\ Delete(Delete(store, job'), job') = Delete(store, job')
          /\ output' = output]_vars

\* C18 witness: jobs clear has deleted a job that jobs remove, run while jobs
\* clear was at work, had found and removed before.
C18_Witness ==
    /\ pc = "jobs_clear"
    /\ kills = 0
    /\ job # NoJob
    /\ output.command = "remove"
    /\ output.found
    /\ output.id = job.id

\* C20 (under AdminSpec): jobs show, run on a job directory whose files all
\* parse for a job whose file holds a status that is not a value of
\* JobStatus, ends without an exception and prints the status unknown.
C20_ForeignStatusLoadsAsUnknown ==
    [][(/\ LoadingCommand
        /\ output'.command = "show"
        /\ unparseable = {}
        /\ output'.id \in DOMAIN store
        /\ store[output'.id].status \in ForeignStatus) =>
          /\ ~output'.raised
          /\ output'.found
          /\ output'.lines = {[id |-> output'.id, text |-> UNKNOWN]}]_vars

\* C20 witness: jobs show has printed the status unknown for a job whose file
\* holds the status "done".
C20_Witness ==
    /\ output.command = "show"
    /\ output.found
    /\ output.id \in DOMAIN store
    /\ store[output.id].status = "done"
    /\ \E l \in output.lines : l.text = UNKNOWN

\* C21 (under AdminSpec): jobs show, run on a job directory whose files all
\* parse for a job whose file has no status entry, prints the status unknown.
C21_MissingStatusLoadsAsUnknown ==
    [][(/\ LoadingCommand
        /\ output'.command = "show"
        /\ unparseable = {}
        /\ output'.id \in DOMAIN store
        /\ store[output'.id].status = NoStatus) =>
          /\ ~output'.raised
          /\ output'.found
          /\ output'.lines = {[id |-> output'.id, text |-> UNKNOWN]}]_vars


\* C22: the file named by an id always holds the record of that id, so no two
\* records share an id and a saved record never changes its id; a record that
\* appears in the job directory has an id never handed out before, or is the
\* job in hand saved again; and a step of the fan-out past the first result
\* writes its copy under an id that differs from the searched job's and from
\* every stored job's, leaving the searched job under its own id.
C22_IdUniqueAndImmutable ==
    /\ [](\A i \in DOMAIN store : store[i].id = i)
    /\ [][/\ \A i \in DOMAIN store' \ DOMAIN store : i >= nextId \/ i = job.id
          /\ \A i \in DOMAIN store \cap DOMAIN store' : store'[i].id = store[i].id
          /\ (pc = "ps_result" /\ search_result_counter > 0 /\ pc' # "idle") =>
                \E c \in DOMAIN store' \ DOMAIN store :
                    /\ c # job.id
                    /\ store'[c].id = c
                    /\ DOMAIN store' = DOMAIN store \cup {c}
                    /\ \A i \in DOMAIN store : store'[i] = store[i]]_vars

\* A copy made for a second search result is stored beside the searched job.
C22_Witness ==
    \E i \in DOMAIN store, c \in DOMAIN store :
        /\ i # c
        /\ store[i].query = store[c].query
        /\ store[i].status = ADDING
        /\ store[c].status = ADDING
        /\ store[c].converted_file_name = store[i].converted_file_name \o <<".", "1">>


\* The positions inside TorrentDataProvider.search.
SearchPositions == {"get_token", "search", "search_retry"}

\* Every response search has had so far in this call is None or an error.
OnlyErrors ==
    \A i \in DOMAIN finder.responses :
        finder.responses[i].none \/ finder.responses[i].error

Discoverable(date) ==
    UNION {UNION {{[keyword |-> TrackedSeries[t].main_keyword,
                    query |-> TrackedSeries[t].stored_searches[s].search_terms
                                  \o EpisodeTag(ep.season_number, ep.episode_number),
                    download_only |-> TrackedSeries[t].stored_searches[s].is_download_only] :
                        s \in DOMAIN TrackedSeries[t].stored_searches} :
                    ep \in {KnownSeries[TrackedSeries[t].series_id].episodes[e] :
                               e \in {x \in DOMAIN KnownSeries[TrackedSeries[t].series_id].episodes :
                                        KnownSeries[TrackedSeries[t].series_id].episodes[x].airdate
                                            = date}}} :
              t \in DOMAIN TrackedSeries}

\* C24: when create_new_search_jobs returns, a job with the keyword and the
\* query of every stored search of every episode airing on the airdate exists;
\* every job the discovery creates is for such a stored search, and its next
\* save leaves it searching, added today, with the download-only flag of that
\* stored search; so no job is created for an episode of another date.
C24_Discovery ==
    [][/\ (pc = "ps_create" /\ pc' \in {"ps_search", "add_torrents"}) =>
            \A d \in Discoverable(airdate) : Holders(store', d.keyword, d.query) # {}
       /\ (pc \in {"ps_promote", "ps_create", "ps_create_save"}) =>
            \A i \in Created :
                /\ pc' = "ps_create_save"
                /\ \E d \in Discoverable(airdate) :
                        store'[i].keyword = d.keyword /\ store'[i].query = d.query
       /\ (pc = "ps_create_save" /\ pc' # "idle") =>
            /\ pc' = "ps_create"
            /\ DOMAIN store' = DOMAIN store
            /\ \A i \in DOMAIN store \ {job.id} : store'[i] = store[i]
            /\ \E d \in Discoverable(airdate) :
                /\ store'[job.id].keyword = d.keyword
                /\ store'[job.id].query = d.query
                /\ store'[job.id].download_only = d.download_only
                /\ store'[job.id].status = SEARCHING
                /\ store'[job.id].added = today]_vars

\* Discovery has returned with a searching job for each of the two stored
\* searches of the episode airing today, the download-only one flagged.
C24_Witness ==
    /\ pc = "ps_search"
    /\ \E i \in DOMAIN store, k \in DOMAIN store :
        /\ store[i].query = <<"x", "teamsearch", "s", "0", "1", "e", "0", "2">>
        /\ store[k].query = <<"x", "raw", "s", "0", "1", "e", "0", "2">>
        /\ store[i].status = SEARCHING /\ ~store[i].download_only
        /\ store[k].status = SEARCHING /\ store[k].download_only
        /\ store[i].added = airdate /\ store[k].added = airdate

\* A discovery for a date on which no tracked episode airs has returned.
C24_NoEpisodeWitness ==
    /\ pc = "add_torrents"
    /\ airdate = MaxDay
    /\ Discoverable(airdate) = {}
    /\ store = <<>>


\* The statuses of section 4.1 in the order of the pipeline.
Lifecycle == <<WAITING, SEARCHING, ADDING, DOWNLOADING, PENDING, CONVERTING, COMPLETED>>

\* A status and the one that follows it in the pipeline.
LifecycleSteps == {<<Lifecycle[k], Lifecycle[k + 1]>> : k \in 1..(Len(Lifecycle) - 1)}

\* C25 (under FairSpec, where every search finds something, the daemon takes
\* every link and reports every transfer finished, and every conversion
\* succeeds): every change of the persisted status of a job is from one status
\* of the pipeline to the next; a search with exactly one result creates no
\* job and leaves the searched job as ADDING with the hash of that result; a
\* job leaves the store only as completed and not added today, and when
\* mark_job_complete ends the job is in the store exactly if it was added
\* today; and, unless the process is killed or halts at the bound on job ids,
\* every stored job is eventually completed or deleted.
C25_Lifecycle ==
    /\ [][\A i \in DOMAIN store \cap DOMAIN store' :
            store'[i].status # store[i].status =>
                <<store[i].status, store'[i].status>> \in LifecycleSteps]_vars
    /\ [][(pc = "ps_result" /\ Len(search_results) = 1 /\ pc' # "idle") =>
            /\ DOMAIN store' = DOMAIN store
            /\ store[job.id].status = SEARCHING
            /\ store'[job.id].status = ADDING
            /\ store'[job.id].torrent_hash = search_results[1].hash
            /\ \A i \in DOMAIN store \ {job.id} : store'[i] = store[i]]_vars
    /\ [][\A i \in DOMAIN store \ DOMAIN store' :
            /\ store[i].status = COMPLETED
            /\ store[i].added # today]_vars
    /\ [][(pc = "pc_complete" /\ pc' # "idle") =>
            (job.id \in DOMAIN store' <=> job.added = today)]_vars
    /\ \A i \in 1..MaxJobs :
          (i \in DOMAIN store)
              ~> \/ i \notin DOMAIN store
                 \/ store[i].status = COMPLETED
                 \/ kills > 0
                 \/ nextId > MaxJobs

\* A job that went through the pipeline alone, on the day it was added, is
\* completed and kept, its output in the final directory.
C25_Witness ==
    /\ kills = 0
    /\ pc = "idle"
    /\ DOMAIN store = {1}
    /\ nextId = 2
    /\ store[1].status = COMPLETED
    /\ store[1].added = today
    /\ ~store[1].download_only
    /\ store[1].converted_file_name \in final


\* C26: the first loop of perform_conversions saves one listed job as
\* CONVERTING per step and nothing else; and when the second loop starts, and
\* as long as it has not written anything, every job that was PENDING when the
\* stage started is stored as CONVERTING, none is PENDING any more, and nothing
\* has been copied or converted by this invocation before that.
C26_AllConvertingBeforeWork ==
    /\ [][(pc = "perform_conversions" /\ pc' = "pc_mark") =>
            /\ pending_job_list' = {j \in load_jobs(store) : j.status = PENDING}
            /\ job_list' = pending_job_list'
            /\ UNCHANGED <<store, staging, final>>]_vars
    /\ [][(pc = "pc_mark" /\ pc' # "idle") =>
            /\ UNCHANGED <<staging, final>>
            /\ \/ /\ pc' = "pc_mark"
                  /\ \E j \in job_list :
                        /\ j.status = PENDING
                        /\ job_list' = job_list \ {j}
                        /\ store' = Save(store, [j EXCEPT !.status = CONVERTING])
               \/ /\ pc' = "pc_convert"
                  /\ job_list = {}
                  /\ store' = store
                  /\ pending_job_list' # {}
                  /\ \A j \in pending_job_list' :
                        /\ j.id \in DOMAIN store'
                        /\ store'[j.id].status = CONVERTING
                  /\ get_jobs_by_status(store', PENDING) = {}]_vars
    /\ [][(staging' # staging \/ final' # final
             \/ (\E i \in DOMAIN store' : store'[i].status = COMPLETED
                                           /\ (i \notin DOMAIN store \/ store[i].status # COMPLETED))) =>
            /\ pc \in {"pc_convert", "pc_file", "pc_rename"}
            /\ \A j \in pending_job_list :
                  j.id \in DOMAIN store => store[j.id].status \in {CONVERTING, COMPLETED}]_vars

\* The second loop starts with two jobs stored as CONVERTING.
C26_Witness ==
    /\ pc = "pc_convert"
    /\ job_list = pending_job_list
    /\ Cardinality(pending_job_list) >= 2
    /\ \A j \in pending_job_list : store[j.id].status = CONVERTING


\* C27: in every state, a job that is not download-only and is stored as
\* COMPLETED has its output in the final directory; and a step that deletes
\* such a job as completed is taken with its output in the final directory.
C27_CompletedAfterMove ==
    /\ [](\A i \in DOMAIN store :
            (store[i].status = COMPLETED /\ ~store[i].download_only) =>
                store[i].converted_file_name \in final)
    /\ [][(pc = "pc_complete" /\ ~job.download_only /\ job.id \notin DOMAIN store') =>
            job.converted_file_name \in final]_vars


\* The loops of process_jobs in the order in which an invocation comes to
\* them, with the points between them (0 when process_jobs is not running).
LoopRank(p) ==
    CASE p = "perform_searches" -> 1
      [] p = "ps_prune" -> 2
      [] p = "ps_promote" -> 3
      [] p \in {"ps_create", "ps_create_save"} -> 4
      [] p \in {"ps_search", "ps_result"} -> 5
      [] p = "add_torrents" -> 6
      [] p \in {"at_prefetch", "at_add", "at_status"} -> 7
      [] p = "query_torrents_status" -> 8
      [] p = "qt_query" -> 9
      [] p = "perform_conversions" -> 10
      [] p = "pc_mark" -> 11
      [] p \in {"pc_convert", "pc_file", "pc_complete", "pc_rename"} -> 12
      [] OTHER -> 0

\* The ids of the jobs of a list.
Ids(list) == {j.id : j \in list}

\* C28: a list of jobs holds a job once; within an invocation process_jobs
\* never goes back to an earlier loop, so each loop takes its list once; while
\* a loop runs its list gets no job; and a job that a step writes, creates or
\* deletes is not in the list the loop still has to visit: a job set back to
\* WAITING is not promoted or searched again, and a copy saved as ADDING is
\* not searched, before the invocation ends.
C28_NoJobTwice ==
    /\ [](\A a \in job_list, b \in job_list : a.id = b.id => a = b)
    /\ [][/\ pc' # "idle" => LoopRank(pc') >= LoopRank(pc)
          /\ LoopRank(pc') = LoopRank(pc) => Ids(job_list') \subseteq Ids(job_list)
          /\ StageStep =>
                \A i \in DOMAIN store \cup DOMAIN store' :
                    (i \notin DOMAIN store \/ i \notin DOMAIN store' \/ store'[i] # store[i])
                        => i \notin Ids(job_list')
          /\ (pc = "ps_search" /\ pc' \notin {"ps_search", "ps_result", "idle"}) =>
                (pc' = "add_torrents" /\ job_list = {})]_vars

\* In an invocation that ran the search stage, add_torrents starts while one
\* job has been set back to WAITING and a copy has been saved as ADDING.
C28_Witness ==
    /\ pc = "add_torrents"
    /\ airdate = today
    /\ kills = 0 /\ commands = 0
    /\ \E i \in DOMAIN store, c \in DOMAIN store :
        /\ store[i].status = WAITING
        /\ store[c].status = ADDING
        /\ store[c].converted_file_name # NoneSeq
        /\ store[c].converted_file_name[Len(store[c].converted_file_name)] = "1"
        /\ store[c].converted_file_name[Len(store[c].converted_file_name) - 1] = "."


\* The jobs a step writes, creates or deletes.
Touched ==
    {i \in DOMAIN store \cup DOMAIN store' :
        i \notin DOMAIN store \/ i \notin DOMAIN store' \/ store'[i] # store[i]}

\* C29: a step of perform_searches touches only jobs stored as WAITING or
\* SEARCHING, completed jobs not added on the airdate (which it deletes), and
\* jobs it creates; a step of add_torrents only jobs stored as ADDING, which it
\* leaves DOWNLOADING; a step of query_torrents_status only jobs stored as
\* DOWNLOADING, which it leaves PENDING; a step of perform_conversions only
\* jobs of the list of PENDING jobs it took when it started, a list whose jobs
\* stay the same. As add_torrents makes no job ADDING, query_torrents_status
\* none DOWNLOADING, and perform_conversions writes listed jobs only, the jobs
\* touched are in an owned status when the stage starts.
C29_StagesTouchOwnJobs ==
    [][/\ StageOf(pc) = 1 =>
            \A i \in Touched :
                \/ i \notin DOMAIN store /\ i >= nextId
                \/ /\ i \in DOMAIN store
                   /\ \/ store[i].status \in {WAITING, SEARCHING}
                      \/ /\ store[i].status = COMPLETED
                         /\ store[i].added # airdate
                         /\ i \notin DOMAIN store'
       /\ StageOf(pc) = 2 =>
            \A i \in Touched :
                /\ i \in DOMAIN store /\ i \in DOMAIN store'
                /\ store[i].status = ADDING
                /\ store'[i].status = DOWNLOADING
       /\ StageOf(pc) = 3 =>
            \A i \in Touched :
                /\ i \in DOMAIN store /\ i \in DOMAIN store'
                /\ store[i].status = DOWNLOADING
                /\ store'[i].status = PENDING
       /\ (pc = "perform_conversions" /\ pc' # "idle") =>
            /\ Touched = {}
            /\ pending_job_list' = get_jobs_by_status(store, PENDING)
       /\ (StageOf(pc) = 4 /\ pc # "perform_conversions") =>
            /\ pc' # "idle" => Ids(pending_job_list') = Ids(pending_job_list)
            /\ Touched \subseteq Ids(pending_job_list)
            /\ \A i \in Touched \cap DOMAIN store :
                  store[i].status \in {PENDING, CONVERTING, COMPLETED}]_vars

\* query_torrents_status has made a job PENDING beside a waiting job, which it
\* left as it was.
C29_Witness ==
    /\ pc = "qt_query"
    /\ \E i \in DOMAIN store, k \in DOMAIN store :
        /\ store[i].status = PENDING
        /\ store[k].status = WAITING
    /\ \E j \in job_list : j.status = DOWNLOADING


\* C30: the loop over the results r[1..n] of a search takes them in their
\* order, one per step, and ends after the last one only. Its first step
\* writes the searched job under its id with the title, magnet link and hash
\* of r[1] and status ADDING, its converted file name and all else as stored;
\* step k > 1 leaves that job as the first step wrote it and creates exactly
\* one job, equal to it but for its new id, the title, magnet link and hash
\* of r[k], and a converted file name that is the searched job's followed by
\* "." and k - 1.
C30_ResultsInOrder ==
    [][(pc = "ps_result" /\ pc' # "idle") =>
         LET n == Len(search_results)
             k == search_result_counter + 1
             r == search_results[k]
         IN /\ k <= n
            /\ search_results = SubSeq(TorrentResults, 1, n)
            /\ job.id \in DOMAIN store
            /\ IF k < n
               THEN /\ pc' = "ps_result"
                    /\ search_result_counter' = k
                    /\ search_results' = search_results
                    /\ job'.id = job.id
               ELSE pc' = "ps_search"
            /\ IF k = 1
               THEN /\ store[job.id].status = SEARCHING
                    /\ store' = [store EXCEPT ![job.id] =
                                    [@ EXCEPT !.status = ADDING,
                                              !.title = r.title,
                                              !.magnet_link = r.magnet_link,
                                              !.torrent_hash = r.hash]]
               ELSE /\ store[job.id].title = search_results[1].title
                    /\ store[job.id].magnet_link = search_results[1].magnet_link
                    /\ store[job.id].torrent_hash = search_results[1].hash
                    /\ \E c \in DOMAIN store' \ DOMAIN store :
                        /\ DOMAIN store' = DOMAIN store \cup {c}
                        /\ \A i \in DOMAIN store : store'[i] = store[i]
                        /\ store'[c] =
                             [store[job.id] EXCEPT
                                 !.id = c,
                                 !.title = r.title,
                                 !.magnet_link = r.magnet_link,
                                 !.torrent_hash = r.hash,
                                 !.converted_file_name = @ \o <<".", ToString(k - 1)>>]]_vars

\* The loop over two results has ended: the searched job holds the first
\* result, a copy the second under the searched job's file name followed by
\* ".1".
C30_Witness ==
    /\ pc = "ps_search"
    /\ \E i \in DOMAIN store, c \in DOMAIN store :
        /\ i < c
        /\ store[i].status = ADDING /\ store[c].status = ADDING
        /\ store[i].title = TorrentResults[1].title
        /\ store[i].torrent_hash = TorrentResults[1].hash
        /\ store[c].title = TorrentResults[2].title
        /\ store[c].magnet_link = TorrentResults[2].magnet_link
        /\ store[c].converted_file_name = store[i].converted_file_name \o <<".", "1">>


\* -------------------------------------------------- conversions that raise
\* The run of HappySpec in which, besides, the copy of a download-only job or
\* the conversion of a file can raise; the process is not killed.
FailingConversion == [HappyOutcome EXCEPT !.call = {"raises"}]

ConversionRaises ==
    \/ CopyDownloadedFiles(FailingConversion)
    \/ ConvertFile(FailingConversion)

RetryNext ==
    \/ ProcessJobs
    \/ ConversionRaises
    \/ JobsAdd
    \/ BeginFindDownloads
    \/ FindDownloadsCreateJob
    \/ NextDay

\* process_jobs is called again and again, and a started invocation or
\* command runs on until it ends; nothing is assumed about how often a copy
\* or a conversion raises.
RetrySpec ==
    /\ Init /\ [][RetryNext]_vars
    /\ WF_vars(ProcessJobs)
    /\ WF_vars(FindDownloadsCreateJob)

\* C31 (under RetrySpec): a job left stored as CONVERTING by an invocation
\* that has ended is taken up again by the second loop of perform_conversions
\* in a later invocation, or is completed or deleted; nothing is asked of
\* behaviours the bound on job ids brings to a halt.
C31_RaisedConversionIsRetried ==
    \A i \in 1..MaxJobs :
        (pc = "idle" /\ i \in DOMAIN store /\ store[i].status = CONVERTING)
            ~> \/ pc = "pc_convert" /\ i \in {j.id : j \in job_list}
               \/ i \notin DOMAIN store
               \/ store[i].status = COMPLETED
               \/ nextId > MaxJobs


\* C32: a step that removes a job record from the job directory is a step of
\* a stage operation and removes a record stored as COMPLETED; it is either the
\* pruning loop of perform_searches removing a job not added on the airdate,
\* or the end of mark_job_complete removing the job it has just saved as
\* COMPLETED, which was not added today. (jobs add, search --create-jobs, a
\* kill and the passing of a day remove nothing.)
C32_OnlyCompletedDeleted ==
    [][\A i \in DOMAIN store \ DOMAIN store' :
          /\ StageStep
          /\ store[i].status = COMPLETED
          /\ \/ pc = "ps_prune" /\ store[i].added # airdate
             \/ pc = "pc_complete" /\ job.id = i /\ job.added # today]_vars

\* mark_job_complete has just deleted a job added on an earlier day, beside a
\* job that is not completed.
C32_Witness ==
    /\ pc = "pc_rename"
    /\ job.status = COMPLETED
    /\ job.id \notin DOMAIN store
    /\ job.added # today
    /\ \E k \in DOMAIN store : store[k].status # COMPLETED


\* ------------------------------------------- a job of unrecognised status
\* process_jobs and the commands of Spec on a job directory that holds one job
\* file whose status loads as UNKNOWN: the value of UNKNOWN itself, or a value
\* that is none of the values of JobStatus.
SinkInit ==
    /\ \E status \in ForeignStatus \cup {UNKNOWN} : store = [i \in {1} |-> StoredJob(1, status)]
    /\ nextId = 2
    /\ today = 1
    /\ pc = "idle"
    /\ airdate = 0
    /\ job_list = {}
    /\ pending_job_list = {}
    /\ job = NoJob
    /\ search_results = <<>>
    /\ search_result_counter = 0
    /\ searches = <<>>
    /\ files = 0
    /\ torrents = {}
    /\ staging = {}
    /\ final = {}
    /\ kills = 0
    /\ commands = 0
    /\ quiet = 0
    /\ submitted = {}
    /\ unparseable = {}
    /\ output = NoOutput
    /\ finder = TorrentDataProvider

SinkSpec == SinkInit /\ [][Next]_vars

\* C33 (under SinkSpec): no step of perform_searches, add_torrents,
\* query_torrents_status or perform_conversions removes or changes the file
\* of a job that loads with status UNKNOWN, and no list of jobs a stage works
\* on holds such a job.
C33_UnknownIsSink ==
    [][StageStep =>
         \A i \in DOMAIN store :
             Job(store[i]).status = UNKNOWN =>
                 /\ i \in DOMAIN store'
                 /\ store'[i] = store[i]
                 /\ i \notin Ids(job_list') \cup Ids(pending_job_list')
                 /\ job'.id # i]_vars

\* A job has gone through the whole pipeline beside the job of unrecognised
\* status, whose file still holds the status it held at first.
C33_Witness ==
    /\ pc = "idle"
    /\ 1 \in DOMAIN store
    /\ store[1].status \in ForeignStatus
    /\ \E k \in DOMAIN store : store[k].status = COMPLETED
    /\ \E k \in DOMAIN store : store[k].status = WAITING


\* C34 (under AdminSpec): when jobs clear has loaded the jobs, those it goes on
\* to delete are, for one of the status arguments it can be given, exactly the
\* loaded jobs of that status, and all of them for no argument; it then
\* deletes these jobs and no other, and returns when none is left.
C34_ClearByStatus ==
    [][/\ (pc = "idle" /\ pc' = "jobs_clear") =>
            \E status \in StatusArguments :
                job_list' = {x \in load_jobs(store) : status = None \/ x.status = status}
       /\ (pc = "jobs_clear" /\ pc' = "jobs_clear" /\ store' # store /\ commands' = commands) =>
            \E j \in job_list : job_list' = job_list \ {j} /\ store' = Delete(store, j)
       /\ (pc = "jobs_clear" /\ pc' = "idle" /\ kills' = kills) => job_list = {}]_vars


\* C35 (under AdminSpec): "jobs update" for an existing job with the status
\* adding and a magnet URL leaves the job stored with status ADDING and with the
\* magnet link, title and torrent hash of that URL; with a status that is no
\* value of JobStatus, or an id no job has, it leaves the store as it was.
C35_UpdateAddingWithMagnet ==
    [][\A job_id \in 1..MaxJobs, status \in UpdateStatusArguments,
          magnet_url \in UpdateMagnetArguments :
            (JobsUpdate(job_id, status, magnet_url) /\ unparseable = {}) =>
                /\ (job_id \in DOMAIN store /\ status = ADDING /\ magnet_url # None) =>
                       /\ job_id \in DOMAIN store'
                       /\ store'[job_id] =
                              [store[job_id] EXCEPT
                                  !.status = ADDING,
                                  !.magnet_link = magnet_url,
                                  !.title = create_torrent_result(magnet_url).title,
                                  !.torrent_hash = create_torrent_result(magnet_url).hash]
                /\ (job_id \notin DOMAIN store \/ status \notin JobStatus) =>
                       store' = store /\ pc' = "idle"]_vars


\* The queries of the stored searches that are configured as download-only.
DownloadOnlyQueries ==
    {SearchesFor(1, MaxDay)[n].query :
        n \in {k \in DOMAIN SearchesFor(1, MaxDay) : SearchesFor(1, MaxDay)[k].download_only}}

\* C36: a job that discovery writes for a download-only stored search is
\* stored as download-only from its first write on, and is never transcoded.
C36_DownloadOnlyFromFirstWrite ==
    /\ \A i \in DOMAIN store :
           store[i].query \in DownloadOnlyQueries => store[i].download_only
    /\ pc \in {"pc_file", "pc_rename"} => job.query \notin DownloadOnlyQueries


\* perform_searches is under way, past its pruning of completed jobs.
InSearchStage == pc \in {"ps_promote", "ps_create", "ps_create_save", "ps_search", "ps_result"}

\* C37: when perform_searches returns, no stored job is SEARCHING; and as no
\* step of it deletes a waiting, searching or adding job or gives it a status
\* other than WAITING, SEARCHING or ADDING (an adding job stays adding), every
\* job that was waiting or searching at the start, or was created by discovery,
\* is WAITING or ADDING then.
C37_NoSearchingAfterSearches ==
    [][/\ (InSearchStage /\ pc' = "add_torrents") =>
              \A i \in DOMAIN store' : Job(store'[i]).status \notin {SEARCHING}
       /\ (InSearchStage /\ StageStep) =>
              /\ \A i \in DOMAIN store :
                     Job(store[i]).status \in {WAITING, SEARCHING, ADDING} =>
                         /\ i \in DOMAIN store'
                         /\ Job(store'[i]).status \in {WAITING, SEARCHING, ADDING}
                         /\ Job(store[i]).status = ADDING => Job(store'[i]).status = ADDING
              /\ \A i \in DOMAIN store' \ DOMAIN store :
                     Job(store'[i]).status \in {WAITING, SEARCHING, ADDING}]_vars

C37_Witness ==
    /\ pc = "ps_search"
    /\ job_list = {}
    /\ kills = 0
    /\ \E i \in DOMAIN store : store[i].status = WAITING
    /\ \E i \in DOMAIN store : store[i].status = ADDING


\* C38: when perform_conversions returns (no collaborator having raised), every
\* job it marked CONVERTING is stored as COMPLETED or has been deleted as a
\* completed job of another day, however many files of its download match the
\* episode pattern.
C38_MarkedJobsAreCompleted ==
    [][(pc = "pc_convert" /\ job_list = {} /\ pc' = "idle" /\ kills' = kills) =>
           \A j \in pending_job_list :
               \/ j.id \notin DOMAIN store
               \/ store[j.id].status = COMPLETED]_vars


\* C39: every stored job with status ADDING has a magnet link, and every
\* stored job with status DOWNLOADING, PENDING or CONVERTING has a torrent hash,
\* a download directory and a name.
C39_StageDataPresent ==
    \A i \in DOMAIN store :
        /\ store[i].status = ADDING => store[i].magnet_link # None
        /\ store[i].status \in {DOWNLOADING, PENDING, CONVERTING} =>
               /\ store[i].torrent_hash # None
               /\ store[i].download_directory # None
               /\ store[i].name # NoneSeq

C39_Witness ==
    /\ \E i \in DOMAIN store : store[i].status = ADDING
    /\ \E i \in DOMAIN store : store[i].status = CONVERTING
    /\ \E i \in DOMAIN store : store[i].status \in {DOWNLOADING, PENDING}


\* ---------------------------------------------- Job.save and Job.load, by value
\* Here a member of JobStatus is told from its value: the job in memory holds
\* the member, the job file holds what json.dump makes of it.
JobStatusMember(value) == [enum |-> "JobStatus", value |-> value]

\* Mutant of json_default: the member is written as str() renders it.
json_default_AsString(x) == "JobStatus." \o x.value

\* The default of json.dump in Job.save, called for the one entry of the
\* dictionary that json cannot serialise, the status member: its value.
json_default(x) == x.value

\* json.dump(self.dictionary, ..., default=...): the strings, the boolean and
\* the nulls of the dictionary are written as they are.
json_dump(dictionary) == [dictionary EXCEPT !.status = json_default(@)]

\* Job.__init__ with the dictionary json.load read: the status entry becomes the
\* member JobStatus() gives for it, and a dictionary without one a waiting job.
JobOfDictionary(job_dict) ==
    [job_dict EXCEPT !.status = IF @ = NoStatus THEN JobStatusMember(WAITING)
                                ELSE JobStatusMember(JobStatusOf(@))]

\* Job.load: None (here no job) without the file, else the job of its dictionary.
Job_load(st, id) == IF id \in DOMAIN st THEN {JobOfDictionary(st[id])} ELSE {}

RoundTripInit ==
    /\ store = << >>
    /\ nextId = MaxAdminJobs + 1
    /\ today = 1
    /\ pc = "idle"
    /\ airdate = 0
    /\ job_list = {}
    /\ pending_job_list = {}
    /\ job = NoJob
    /\ search_results = <<>>
    /\ search_result_counter = 0
    /\ searches = <<>>
    /\ files = 0
    /\ torrents = {}
    /\ staging = {}
    /\ final = {}
    /\ kills = 0
    /\ commands = 0
    /\ quiet = 0
    /\ submitted = {}
    /\ unparseable = {}
    /\ output = NoOutput
    /\ finder = TorrentDataProvider

\* A job in memory: made by create_job for either kind of stored search, with
\* a member of JobStatus assigned to its status (the status setter).
JobInMemory ==
    /\ pc = "idle"
    /\ \E id \in 1..MaxAdminJobs, value \in JobStatus, is_download_only \in BOOLEAN :
        job' = [create_job(id, today, "x", <<"x", "teamsearch">> \o EpisodeTag(1, 2),
                           is_download_only)
                   EXCEPT !.status = JobStatusMember(value)]
    /\ job_list' = {}
    /\ pc' = "job_save"
    /\ UNCHANGED <<store, nextId, commands, output, unparseable, stage_vars>>

\* Job.save writes the file of the job.
JobSave ==
    /\ pc = "job_save"
    /\ store' = Save(store, json_dump(job))
    /\ pc' = "job_load"
    /\ UNCHANGED <<job, job_list, nextId, commands, output, unparseable, stage_vars>>

\* Job.load reads it.
JobLoad ==
    /\ pc = "job_load"
    /\ job_list' = Job_load(store, job.id)
    /\ pc' = "idle"
    /\ UNCHANGED <<store, job, nextId, commands, output, unparseable, stage_vars>>

RoundTripNext ==
    \/ JobInMemory
    \/ JobSave
    \/ JobLoad

RoundTripSpec == RoundTripInit /\ [][RoundTripNext]_vars

\* C40 (under RoundTripSpec): the job that Job.load reads from the file Job.save
\* wrote has the id, the status member and every other attribute of the saved
\* job, and the file holds the status as the string value of the member.
C40_SaveLoadRoundTrip ==
    (pc = "idle" /\ job.id # 0) =>
        /\ job_list = {job}
        /\ store[job.id].status \in JobStatus
        /\ store[job.id].status = job.status.value

C40_Witness ==
    /\ pc = "idle"
    /\ job.id # 0
    /\ job.status = JobStatusMember(UNKNOWN)
    /\ job.download_only
    /\ \E j \in job_list : j.status = JobStatusMember(UNKNOWN)

====
